---- MODULE Spec2Model ----
(***************************************************************************)
(* Model of the TKN8R token generator (folken-games-token-prep).           *)
(*                                                                         *)
(*   - calculateCropArea (tokenGenerator.js): the crop geometry, as an     *)
(*     operator on exact rationals;                                        *)
(*   - the interaction controller of app.js: upload, face detection,       *)
(*     zoom slider, wheel, drag gestures, border thickness, reset.         *)
(*                                                                         *)
(* JavaScript numbers are modelled as exact rationals [n, d] in lowest     *)
(* terms: a decimal literal such as 4.6 is the rational 46/10 and every    *)
(* operation is exact.  IEEE-754 rounding (which perturbs a result in its  *)
(* last binary digit) is outside the model.                                *)
(***************************************************************************)
EXTENDS Integers, Sequences, FiniteSets, TLC

(***************************************************************************)
(* Numbers                                                                 *)
(***************************************************************************)

\* JavaScript null / undefined / an absent property.
Null == [null |-> TRUE]

Abs(i) == IF i < 0 THEN -i ELSE i

RECURSIVE GCD(_, _)
GCD(a, b) == IF b = 0 THEN a ELSE GCD(b, a % b)

\* The rational n/d (d # 0) in lowest terms with a positive denominator.
Rat(n, d) ==
    LET g == GCD(Abs(n), Abs(d))
        s == IF d < 0 THEN -1 ELSE 1
    IN  [n |-> (s * n) \div g, d |-> (s * d) \div g]

Num(i) == [n |-> i, d |-> 1]
Zero == Num(0)

\* The least common denominator; operands are brought to it, and products are
\* reduced crosswise, so that intermediate values stay small.
LCM(a, b) == (a \div GCD(a, b)) * b

RAdd(a, b) ==
    LET l == LCM(a.d, b.d)
    IN  Rat(a.n * (l \div a.d) + b.n * (l \div b.d), l)
RSub(a, b) ==
    LET l == LCM(a.d, b.d)
    IN  Rat(a.n * (l \div a.d) - b.n * (l \div b.d), l)
RMul(a, b) ==
    LET g1 == GCD(Abs(a.n), b.d)
        g2 == GCD(Abs(b.n), a.d)
    IN  Rat((a.n \div g1) * (b.n \div g2), (a.d \div g2) * (b.d \div g1))
RDiv(a, b) == RMul(a, Rat(b.d, b.n))
RNeg(a) == [n |-> -a.n, d |-> a.d]
RLt(a, b) ==
    LET l == LCM(a.d, b.d) IN a.n * (l \div a.d) < b.n * (l \div b.d)
RLe(a, b) ==
    LET l == LCM(a.d, b.d) IN a.n * (l \div a.d) <= b.n * (l \div b.d)
RGt(a, b) == RLt(b, a)
RMin(a, b) == IF RLt(b, a) THEN b ELSE a
RMax(a, b) == IF RGt(b, a) THEN b ELSE a

\* JavaScript truthiness of a value that is a number, an object or absent.
Truthy(v) == v # Null /\ v # Zero

Point(px, py) == [x |-> px, y |-> py]

(***************************************************************************)
(* tokenGenerator.js: calculateCropArea                                    *)
(***************************************************************************)

headWidthMultiplier == Rat(32, 10)
headHeightMultiplier == Rat(46, 10)
noseFromTopRatio == Rat(42, 100)
expandUpRatio == Rat(35, 10)
expandDownRatio == Rat(3, 10)
expandSideRatio == Rat(12, 10)
faceFromTopRatio == Rat(40, 100)
Two == Num(2)

\* Mutant: the multipliers before they were reduced (4.5 and 6.5).
LandmarkCrop_OldMultipliers(faceData) ==
    LET cropWidth0 == RMul(faceData.eyeDistance, Rat(45, 10))
        cropHeight0 == RMul(faceData.eyeDistance, Rat(65, 10))
        side == IF RGt(cropWidth0, cropHeight0) THEN cropWidth0 ELSE cropHeight0
        nosePositionFromTop == RMul(side, noseFromTopRatio)
    IN  [cropWidth |-> side, cropHeight |-> side,
         centerX |-> faceData.noseTip.x,
         centerY |-> RSub(RAdd(faceData.noseTip.y, nosePositionFromTop),
                          RDiv(side, Two))]

\* The landmark branch: square side from the eye distance, centre from the
\* nose tip.
LandmarkCrop(faceData) ==
    LET cropWidth0 == RMul(faceData.eyeDistance, headWidthMultiplier)
        cropHeight0 == RMul(faceData.eyeDistance, headHeightMultiplier)
        side == IF RGt(cropWidth0, cropHeight0) THEN cropWidth0 ELSE cropHeight0
        nosePositionFromTop == RMul(side, noseFromTopRatio)
    IN  [cropWidth |-> side, cropHeight |-> side,
         centerX |-> faceData.noseTip.x,
         centerY |-> RSub(RAdd(faceData.noseTip.y, nosePositionFromTop),
                          RDiv(side, Two))]

\* Mutant: the vertical centre computed with the signs of the landmark branch.
FaceBoxCrop_SignSlip(faceData) ==
    LET desiredHeight == RMul(faceData.height, Rat(48, 10))
        desiredWidth == RMul(faceData.width, Rat(34, 10))
        side == IF RGt(desiredWidth, desiredHeight) THEN desiredWidth
                                                     ELSE desiredHeight
        facePositionFromTop == RMul(side, faceFromTopRatio)
    IN  [cropWidth |-> side, cropHeight |-> side,
         centerX |-> RAdd(faceData.x, RDiv(faceData.width, Two)),
         centerY |-> RSub(RAdd(faceData.y, facePositionFromTop), RDiv(side, Two))]

\* The face-box branch: square side from the expanded box, centre from the
\* box centre and the box top.
FaceBoxCrop(faceData) ==
    LET faceCenterX == RAdd(faceData.x, RDiv(faceData.width, Two))
        faceTop == faceData.y
        expandUp == RMul(faceData.height, expandUpRatio)
        expandDown == RMul(faceData.height, expandDownRatio)
        expandLeft == RMul(faceData.width, expandSideRatio)
        expandRight == RMul(faceData.width, expandSideRatio)
        desiredHeight == RAdd(RAdd(expandUp, faceData.height), expandDown)
        desiredWidth == RAdd(RAdd(expandLeft, faceData.width), expandRight)
        side == IF RGt(desiredWidth, desiredHeight) THEN desiredWidth
                                                     ELSE desiredHeight
        facePositionFromTop == RMul(side, faceFromTopRatio)
    IN  [cropWidth |-> side, cropHeight |-> side,
         centerX |-> faceCenterX,
         centerY |-> RAdd(RSub(faceTop, facePositionFromTop), RDiv(side, Two))]

\* Mutant: the landmarks are used only when the nose tip lies inside the
\* bounding box.
UsesLandmarks_NoseInsideBox(faceData) ==
    /\ Truthy(faceData.eyeDistance)
    /\ Truthy(faceData.noseTip)
    /\ RLe(faceData.x, faceData.noseTip.x)
    /\ RLe(faceData.noseTip.x, RAdd(faceData.x, faceData.width))
    /\ RLe(faceData.y, faceData.noseTip.y)
    /\ RLe(faceData.noseTip.y, RAdd(faceData.y, faceData.height))

\* if (faceData.eyeDistance && faceData.noseTip) ... else ...
UsesLandmarks(faceData) ==
    Truthy(faceData.eyeDistance) /\ Truthy(faceData.noseTip)

BaseCrop(faceData) ==
    IF UsesLandmarks(faceData) THEN LandmarkCrop(faceData)
                               ELSE FaceBoxCrop(faceData)

\* Mutant: only the width is divided by the zoom factor.
ApplyZoomAndOffset_WidthOnly(base, zoomAdjustment, cropOffset) ==
    [cropWidth |-> RDiv(base.cropWidth, zoomAdjustment),
     cropHeight |-> base.cropHeight,
     centerX |-> RAdd(base.centerX, cropOffset.x),
     centerY |-> RAdd(base.centerY, cropOffset.y)]

\* Mutant: the size is multiplied by the zoom factor.
ApplyZoomAndOffset_Multiplies(base, zoomAdjustment, cropOffset) ==
    [cropWidth |-> RMul(base.cropWidth, zoomAdjustment),
     cropHeight |-> RMul(base.cropHeight, zoomAdjustment),
     centerX |-> RAdd(base.centerX, cropOffset.x),
     centerY |-> RAdd(base.centerY, cropOffset.y)]

\* cropWidth /= zoom; cropHeight /= zoom; the centre moves by the offset.
ApplyZoomAndOffset(base, zoomAdjustment, cropOffset) ==
    [cropWidth |-> RDiv(base.cropWidth, zoomAdjustment),
     cropHeight |-> RDiv(base.cropHeight, zoomAdjustment),
     centerX |-> RAdd(base.centerX, cropOffset.x),
     centerY |-> RAdd(base.centerY, cropOffset.y)]

\* Mutant: the lower-bound tests run after the upper-bound tests.
ClampToImage_LowerTestsLast(image, c) ==
    LET x0 == RSub(c.centerX, RDiv(c.cropWidth, Two))
        y0 == RSub(c.centerY, RDiv(c.cropHeight, Two))
        x1 == IF RGt(RAdd(x0, c.cropWidth), Num(image.width))
              THEN RSub(Num(image.width), c.cropWidth) ELSE x0
        y1 == IF RGt(RAdd(y0, c.cropHeight), Num(image.height))
              THEN RSub(Num(image.height), c.cropHeight) ELSE y0
        x2 == IF RLt(x1, Zero) THEN Zero ELSE x1
        y2 == IF RLt(y1, Zero) THEN Zero ELSE y1
    IN  [x |-> x2, y |-> y2,
         width |-> RMin(c.cropWidth, RSub(Num(image.width), x2)),
         height |-> RMin(c.cropHeight, RSub(Num(image.height), y2))]

\* The four boundary tests, in the order of the code, then the final Math.min.
ClampToImage(image, c) ==
    LET x0 == RSub(c.centerX, RDiv(c.cropWidth, Two))
        y0 == RSub(c.centerY, RDiv(c.cropHeight, Two))
        x1 == IF RLt(x0, Zero) THEN Zero ELSE x0
        y1 == IF RLt(y0, Zero) THEN Zero ELSE y0
        x2 == IF RGt(RAdd(x1, c.cropWidth), Num(image.width))
              THEN RSub(Num(image.width), c.cropWidth) ELSE x1
        y2 == IF RGt(RAdd(y1, c.cropHeight), Num(image.height))
              THEN RSub(Num(image.height), c.cropHeight) ELSE y1
    IN  [x |-> x2, y |-> y2,
         width |-> RMin(c.cropWidth, RSub(Num(image.width), x2)),
         height |-> RMin(c.cropHeight, RSub(Num(image.height), y2))]

calculateCropArea(image, faceData, targetSize, zoomAdjustment, cropOffset) ==
    ClampToImage(image,
        ApplyZoomAndOffset(BaseCrop(faceData), zoomAdjustment, cropOffset))

(***************************************************************************)
(* borderStyles.js: the border textures                                    *)
(*                                                                         *)
(* A drawing surface is sampled at a few pixels; a pixel is its opacity    *)
(* (0 = transparent, 1 = opaque) and the fill style that painted it last.  *)
(* A pixel is the record [x, y, dist]: its canvas coordinates and its      *)
(* distance from the centre of the surface (the pixels sampled have an     *)
(* integral distance).  The fills follow the compositing rules of the      *)
(* 2D canvas; anti-aliasing of the pixels an arc passes through is outside *)
(* the model.                                                              *)
(***************************************************************************)

One == Num(1)

BORDER_TEXTURES ==
    { "solid", "gradient", "metallic", "leather", "wood", "stone", "crystal",
      "glow" }

\* a || b
OrElse(a, b) == IF Truthy(a) THEN a ELSE b

\* Math.round
RRound(q) == ((2 * q.n) + q.d) \div (2 * q.d)

\* colorUtils.js: colorToCSS gives "rgb(r, g, b)", an opaque colour.
colorToCSS(color) ==
    [kind |-> "color", alpha |-> One,
     rgb |-> <<RRound(color.r), RRound(color.g), RRound(color.b)>>]

\* `rgba(r, g, b, a)`
Rgba(r, g, b, a) == [kind |-> "color", alpha |-> a, rgb |-> <<r, g, b>>]

\* The CSS colour 'transparent' is rgba(0, 0, 0, 0).
TransparentStyle == Rgba(0, 0, 0, Zero)

ColorStop(offset, style) == [at |-> offset, style |-> style]

\* ctx.createRadialGradient(cx, cy, r0, cx, cy, r1) with its colour stops.
RadialGradient(r0, r1, stops) ==
    [kind |-> "radial", r0 |-> r0, r1 |-> r1, stops |-> stops]

\* ctx.createLinearGradient(x0, y0, x1, y1) with its colour stops.
LinearGradient(x0, y0, x1, y1, stops) ==
    [kind |-> "linear", x0 |-> x0, y0 |-> y0, x1 |-> x1, y1 |-> y1,
     stops |-> stops]

\* The opacity of a gradient at parameter t: the first stop before it, the
\* last stop after it, linear in between.
StopAlpha(stops, t) ==
    IF RLe(t, stops[1].at) THEN stops[1].style.alpha
    ELSE IF RLe(stops[Len(stops)].at, t) THEN stops[Len(stops)].style.alpha
    ELSE LET i == CHOOSE k \in 1..(Len(stops) - 1) :
                      RLe(stops[k].at, t) /\ RLt(t, stops[k + 1].at)
             a == stops[i]
             b == stops[i + 1]
         IN  RAdd(a.style.alpha,
                  RMul(RSub(b.style.alpha, a.style.alpha),
                       RDiv(RSub(t, a.at), RSub(b.at, a.at))))

\* The parameter of a gradient at a pixel.
GradientParameter(style, p) ==
    IF style.kind = "radial"
    THEN RDiv(RSub(Num(p.dist), style.r0), RSub(style.r1, style.r0))
    ELSE LET dx == RSub(style.x1, style.x0)
             dy == RSub(style.y1, style.y0)
         IN  RDiv(RAdd(RMul(RSub(Num(p.x), style.x0), dx),
                       RMul(RSub(Num(p.y), style.y0), dy)),
                  RAdd(RMul(dx, dx), RMul(dy, dy)))

\* The opacity a fill style has at a pixel.
StyleAlpha(style, p) ==
    IF style.kind = "color" THEN style.alpha
    ELSE StopAlpha(style.stops, GradientParameter(style, p))

ClearPixel == [alpha |-> Zero, paint |-> Null]

\* globalCompositeOperation: 'source-over' paints the source over the
\* destination, 'destination-out' keeps the destination where the source
\* is transparent and removes it in proportion to the source's opacity.
Composite(operation, dst, style, p) ==
    LET srcAlpha == StyleAlpha(style, p)
    IN  IF operation = "destination-out"
        THEN LET alpha == RMul(dst.alpha, RSub(One, srcAlpha))
             IN  [alpha |-> alpha,
                  paint |-> IF alpha = Zero THEN Null ELSE dst.paint]
        ELSE [alpha |-> RAdd(srcAlpha, RMul(dst.alpha, RSub(One, srcAlpha))),
              paint |-> IF srcAlpha = Zero THEN dst.paint ELSE style]

\* ctx.fillStyle = style; ctx.beginPath(); ctx.arc(centerX, centerY, radius,
\* 0, Math.PI * 2); ctx.fill() under the given composite operation.
FillArc(s, operation, radius, style) ==
    [p \in DOMAIN s |->
        IF RLe(Num(p.dist), radius)
        THEN Composite(operation, s[p], style, p)
        ELSE s[p]]

\* The border effect every texture ends with: a transparent fill of the
\* inner disc under 'destination-out'.
BorderEffect(s, radius, borderWidth) ==
    FillArc(s, "destination-out", RSub(radius, Num(borderWidth)),
            TransparentStyle)

\* getImageData, the loop over the pixels and putImageData: the colour
\* channels of the pixels of the ring are rewritten, the opacity is not.
PutPattern(s, radius, borderWidth, pattern, baseColor) ==
    [p \in DOMAIN s |->
        IF /\ RLe(Num(p.dist), radius)
           /\ RGt(Num(p.dist), RSub(radius, Num(borderWidth)))
        THEN [alpha |-> s[p].alpha,
              paint |-> [kind |-> pattern, base |-> baseColor]]
        ELSE s[p]]

drawSolidBorder(s, size, borderWidth, colors) ==
    LET radius == Rat(size, 2)
        s1 == FillArc(s, "source-over", radius, colorToCSS(colors.primary))
    IN  BorderEffect(s1, radius, borderWidth)

drawGradientBorder(s, size, borderWidth, colors) ==
    LET radius == Rat(size, 2)
        s1 == FillArc(s, "source-over", radius, colorToCSS(OrElse(colors.border, colors.primary)))
        gradient ==
            RadialGradient(RSub(radius, Num(borderWidth)), radius,
                <<ColorStop(Zero, colorToCSS(colors.primary)),
                  ColorStop(Rat(1, 2),
                            colorToCSS(OrElse(colors.secondary, colors.primary))),
                  ColorStop(One,
                            colorToCSS(OrElse(colors.accent, colors.primary)))>>)
        s2 == FillArc(s1, "source-over", radius, gradient)
    IN  BorderEffect(s2, radius, borderWidth)

drawMetallicBorder(s, size, borderWidth, colors) ==
    LET radius == Rat(size, 2)
        reach == RMul(radius, Rat(7, 10))
        s1 == FillArc(s, "source-over", radius, colorToCSS(colors.primary))
        gradient ==
            LinearGradient(RSub(radius, reach), RSub(radius, reach),
                           RAdd(radius, reach), RAdd(radius, reach),
                <<ColorStop(Zero, Rgba(255, 255, 255, Rat(6, 10))),
                  ColorStop(Rat(1, 2), Rgba(255, 255, 255, Rat(1, 10))),
                  ColorStop(One, Rgba(0, 0, 0, Rat(3, 10)))>>)
        s2 == FillArc(s1, "source-over", radius, gradient)
    IN  BorderEffect(s2, radius, borderWidth)

drawLeatherBorder(s, size, borderWidth, colors) ==
    LET radius == Rat(size, 2)
        s1 == FillArc(s, "source-over", radius, colorToCSS(colors.primary))
        s2 == PutPattern(s1, radius, borderWidth, "leather", colors.primary)
    IN  BorderEffect(s2, radius, borderWidth)

drawWoodBorder(s, size, borderWidth, colors) ==
    LET radius == Rat(size, 2)
        s1 == FillArc(s, "source-over", radius, colorToCSS(colors.primary))
        s2 == PutPattern(s1, radius, borderWidth, "wood", colors.primary)
    IN  BorderEffect(s2, radius, borderWidth)

drawStoneBorder(s, size, borderWidth, colors) ==
    LET radius == Rat(size, 2)
        s1 == FillArc(s, "source-over", radius, colorToCSS(colors.primary))
        s2 == PutPattern(s1, radius, borderWidth, "stone", colors.primary)
    IN  BorderEffect(s2, radius, borderWidth)

drawCrystalBorder(s, size, borderWidth, colors) ==
    LET radius == Rat(size, 2)
        s1 == FillArc(s, "source-over", radius, colorToCSS(colors.primary))
        gradient ==
            RadialGradient(RSub(radius, Num(borderWidth)), radius,
                <<ColorStop(Zero, colorToCSS(colors.primary)),
                  ColorStop(Rat(3, 10), Rgba(255, 255, 255, Rat(4, 10))),
                  ColorStop(Rat(6, 10),
                            colorToCSS(OrElse(colors.accent, colors.primary))),
                  ColorStop(One, Rgba(255, 255, 255, Rat(6, 10)))>>)
        s2 == FillArc(s1, "source-over", radius, gradient)
    IN  BorderEffect(s2, radius, borderWidth)

drawGlowBorder(s, size, borderWidth, colors) ==
    LET radius == Rat(size, 2)
        half == Rat(borderWidth, 2)
        glow == <<colors.primary.r, colors.primary.g, colors.primary.b>>
        outerGradient ==
            RadialGradient(RSub(radius, half), RAdd(radius, half),
                <<ColorStop(Zero, [kind |-> "color", alpha |-> Rat(8, 10),
                                   rgb |-> glow]),
                  ColorStop(One, [kind |-> "color", alpha |-> Zero,
                                  rgb |-> glow])>>)
        s1 == FillArc(s, "source-over", RAdd(radius, half), outerGradient)
        s2 == FillArc(s1, "source-over", radius, colorToCSS(colors.primary))
        innerRadius == RSub(radius, RMul(Num(borderWidth), Rat(3, 10)))
        innerGradient ==
            RadialGradient(RSub(radius, Num(borderWidth)), innerRadius,
                <<ColorStop(Zero, Rgba(255, 255, 255, Rat(5, 10))),
                  ColorStop(One, [kind |-> "color", alpha |-> Rat(3, 10),
                                  rgb |-> <<OrElse(colors.accent.r, colors.primary.r),
                                          OrElse(colors.accent.g, colors.primary.g),
                                          OrElse(colors.accent.b, colors.primary.b)>>])>>)
        s3 == FillArc(s2, "source-over", innerRadius, innerGradient)
    IN  BorderEffect(s3, radius, borderWidth)

\* TEXTURE_DEFINITIONS[textureType] || TEXTURE_DEFINITIONS[SOLID], then its
\* draw function.
DrawTexture(textureType, s, size, borderWidth, colors) ==
    CASE textureType = "gradient" -> drawGradientBorder(s, size, borderWidth, colors)
      [] textureType = "metallic" -> drawMetallicBorder(s, size, borderWidth, colors)
      [] textureType = "leather" -> drawLeatherBorder(s, size, borderWidth, colors)
      [] textureType = "wood" -> drawWoodBorder(s, size, borderWidth, colors)
      [] textureType = "stone" -> drawStoneBorder(s, size, borderWidth, colors)
      [] textureType = "crystal" -> drawCrystalBorder(s, size, borderWidth, colors)
      [] textureType = "glow" -> drawGlowBorder(s, size, borderWidth, colors)
      [] OTHER -> drawSolidBorder(s, size, borderWidth, colors)

Pixel(px, py, d) == [x |-> px, y |-> py, dist |-> d]

\* A pixel of the surface outside the circle of radius size / 2, at an
\* integral distance from the centre less than size / 2 + 4.
CornerPixel(size) ==
    CASE size = 64 -> Pixel(32 + 21, 32 + 28, 35)
      [] size = 128 -> Pixel(64 + 33, 64 + 56, 65)
      [] size = 512 -> Pixel(256 + 255, 256 + 32, 257)

\* The pixels sampled: the centre, the two pixels next to the inner circle,
\* the middle of the ring, the last pixel of the row and a corner pixel.
SamplePixels(size, borderWidth) ==
    LET radius == size \div 2
    IN  { Pixel(radius + r, radius, r) :
              r \in { 0, radius - borderWidth - 1, radius - borderWidth + 1,
                      radius - (borderWidth \div 2), radius - 1 } }
        \cup { CornerPixel(size) }

(***************************************************************************)
(* tokenGenerator.js: createToken                                          *)
(***************************************************************************)

tokenSize == 512
tokenBorderWidth == 8

\* drawCircularBorder: the border of the token, a radial gradient of the
\* colour scheme over a disc of the scheme's border colour.
drawCircularBorder(s, size, borderWidth, colorScheme) ==
    LET radius == Rat(size, 2)
        s1 == FillArc(s, "source-over", radius, colorToCSS(colorScheme.border))
        gradient ==
            RadialGradient(RSub(radius, Num(borderWidth)), radius,
                <<ColorStop(Zero, colorToCSS(colorScheme.primary)),
                  ColorStop(Rat(1, 2), colorToCSS(colorScheme.secondary)),
                  ColorStop(One, colorToCSS(colorScheme.accent))>>)
        s2 == FillArc(s1, "source-over", radius, gradient)
    IN  BorderEffect(s2, radius, borderWidth)

\* ctx.clip() to the circle of radius clipRadius, then ctx.drawImage(image,
\* crop.x, crop.y, crop.width, crop.height, imageX, imageY, imageSize,
\* imageSize): a pixel of the disc inside the destination square takes the
\* pixel of the image the crop maps to it (images are opaque); where the
\* crop reaches outside the image nothing is drawn.
DrawImageClipped(s, clipRadius, image, crop, imageX, imageY, imageSize) ==
    [p \in DOMAIN s |->
        LET sx == RAdd(crop.x, RDiv(RMul(Num(p.x - imageX), crop.width),
                                    Num(imageSize)))
            sy == RAdd(crop.y, RDiv(RMul(Num(p.y - imageY), crop.height),
                                    Num(imageSize)))
        IN  IF /\ RLe(Num(p.dist), clipRadius)
               /\ imageX <= p.x /\ p.x < imageX + imageSize
               /\ imageY <= p.y /\ p.y < imageY + imageSize
               /\ RLe(Zero, sx) /\ RLt(sx, Num(image.width))
               /\ RLe(Zero, sy) /\ RLt(sy, Num(image.height))
            THEN [alpha |-> One,
                  paint |-> [kind |-> "image", image |-> image.id,
                             x |-> sx, y |-> sy]]
            ELSE s[p]]

\* The pixels of the token sampled: those of SamplePixels for both border
\* widths of the app.
TokenPixels == SamplePixels(tokenSize, 8) \cup SamplePixels(tokenSize, 16)

EmptyCanvas == [p \in TokenPixels |-> ClearPixel]

\* The canvas createToken draws: the border, then the cropped image clipped
\* to the inner circle.
TokenCanvas(image, colorScheme, cropData) ==
    LET bordered == drawCircularBorder(EmptyCanvas, tokenSize, tokenBorderWidth,
                                       colorScheme)
    IN  DrawImageClipped(bordered, Rat(tokenSize - (tokenBorderWidth * 2), 2),
                         image, cropData, tokenBorderWidth, tokenBorderWidth,
                         tokenSize - (tokenBorderWidth * 2))

\* The token returned by createToken: the arguments it was composed from and
\* the crop region it used.  The sixth argument app.js passes (the border
\* options) has no parameter in createToken and is dropped.  The canvas of
\* the token is TokenCanvas of its image, colorScheme and cropData; it is
\* computed where a property looks at its pixels.
createToken(image, faceData, colorScheme, zoomAdjustment, cropOffset, borderOptions) ==
    [image |-> image,
     faceData |-> faceData,
     colorScheme |-> colorScheme,
     zoomAdjustment |-> zoomAdjustment,
     cropOffset |-> cropOffset,
     borderWidth |-> tokenBorderWidth,
     cropData |-> calculateCropArea(image, faceData,
                                    tokenSize - (tokenBorderWidth * 2),
                                    zoomAdjustment, cropOffset)]

canvas(tokenData) ==
    TokenCanvas(tokenData.image, tokenData.colorScheme, tokenData.cropData)

(***************************************************************************)
(* State                                                                   *)
(***************************************************************************)

VARIABLES
    \* app.js module state
    currentImage, currentTokenData, currentFaceData, currentColorScheme,
    currentZoomAdjustment, currentCropOffset, isDragging, dragStart,
    dragStartOffset, lastCropData, currentBorderOptions, currentFileName,
    \* the page: the visible area, the error banner, the slider, the preview
    \* canvas
    screen, errorMessage, zoomSlider, preview,
    \* handleZoomChange.timeout and the tokenAdjustments log in localStorage
    zoomTimeout, tokenAdjustments, adjustmentSummary,
    \* uploads whose image load or face detection is still pending
    pending, uploads,
    \* bookkeeping of the model: mouse moves handled, the last two gestures
    moves, gesture, wheels,
    \* direct calls of calculateCropArea: the fixed arguments and the calls
    argImage, argFace, argOffset, calls,
    \* direct calls of the border drawing functions: the arguments and the
    \* drawing surface
    drawArgs, surface,
    \* the tokens-created counter: the localStorage item and the text shown,
    \* the canvas.toBlob callbacks not yet run, the files handed to the
    \* browser for download, the clicks on the download button
    tokensCreated, tokenCountText, blobCallbacks, downloaded, clicks,
    \* the backend: the count in memory, the count in tokens.json, the chain
    \* of queued writes, the count found at start-up and the responses sent
    tokenCount, tokensFile, writeQueue, bootCount, responses

appVars == <<currentImage, currentTokenData, currentFaceData, currentColorScheme,
             currentZoomAdjustment, currentCropOffset, isDragging, dragStart,
             dragStartOffset, lastCropData, currentBorderOptions, currentFileName,
             screen, errorMessage, zoomSlider, preview, zoomTimeout,
             tokenAdjustments, adjustmentSummary, pending, uploads, moves,
             gesture, wheels>>

cropVars == <<argImage, argFace, argOffset, calls>>

drawVars == <<drawArgs, surface>>

downloadVars == <<tokensCreated, tokenCountText, blobCallbacks, downloaded,
                  clicks>>

serverVars == <<tokenCount, tokensFile, writeQueue, bootCount, responses>>

vars == <<appVars, cropVars, drawVars, downloadVars, serverVars>>

\* let writeQueue = Promise.resolve(): no write queued or in flight; the
\* chain has not been rejected.
IdleQueue == [tasks |-> <<>>, rejected |-> FALSE]

\* let currentBorderOptions = { texture: GRADIENT, customColor: null, borderWidth: 8 }
DefaultBorderOptions ==
    [texture |-> "gradient", customColor |-> Null, borderWidth |-> 8]

NoGesture == [prev |-> Null, cur |-> Null, matched |-> Null]

\* let currentFileName = null: no stored file name.  It is read only as a
\* truth value, as which null is the empty string (handleFile never stores an
\* empty string).
NoFileName == <<>>

\* hideError(): no error is shown.
NoError == ""

(***************************************************************************)
(* Direct calls of calculateCropArea on drawn arguments                    *)
(***************************************************************************)

LandmarkFace(bx, by, bw, bh, eye, nx, ny) ==
    [x |-> Num(bx), y |-> Num(by), width |-> Num(bw), height |-> Num(bh),
     eyeDistance |-> eye, noseTip |-> Point(Num(nx), Num(ny))]

BoxFace(bx, by, bw, bh) ==
    [x |-> Num(bx), y |-> Num(by), width |-> Num(bw), height |-> Num(bh),
     eyeDistance |-> Null, noseTip |-> Null]

ImgPortrait == [id |-> "portrait", width |-> 1000, height |-> 1000]
ImgSmall == [id |-> "small", width |-> 400, height |-> 300]
ImgTall == [id |-> "tall", width |-> 300, height |-> 600]

ArgImages == { ImgPortrait, ImgSmall, ImgTall }

\* Valid face geometries: positive sizes, positive eye distance; the eye
\* distance and the nose tip are present, absent, or present one without the
\* other.
ArgFaces ==
    { LandmarkFace(400, 400, 200, 250, Num(50), 500, 520),
      LandmarkFace(150, 100, 100, 120, Rat(125, 2), 200, 150),
      LandmarkFace(20, 10, 60, 70, Num(20), 60, 40),
      BoxFace(400, 300, 200, 250),
      BoxFace(450, 450, 50, 50),
      BoxFace(100, 100, 100, 40),
      BoxFace(400, 400, 200, 60),
      BoxFace(10, 20, 30, 30),
      [BoxFace(400, 300, 200, 250) EXCEPT !.eyeDistance = Num(50)],
      [BoxFace(100, 100, 100, 40) EXCEPT !.noseTip = Point(Num(150), Num(125))] }

\* The face lies inside the image.
FaceFits(image, face) ==
    /\ RLe(RAdd(face.x, face.width), Num(image.width))
    /\ RLe(RAdd(face.y, face.height), Num(image.height))
    /\ face.noseTip # Null =>
          /\ RLe(face.noseTip.x, Num(image.width))
          /\ RLe(face.noseTip.y, Num(image.height))

\* Mutant: the fallback geometry is the whole image.
FallbackFace_WholeImage(image) ==
    [x |-> Zero, y |-> Zero, width |-> Num(image.width),
     height |-> Num(image.height), eyeDistance |-> Null, noseTip |-> Null]

\* The geometry processImageFallback substitutes: the central half of the image.
FallbackFace(image) ==
    [x |-> RMul(Num(image.width), Rat(25, 100)),
     y |-> RMul(Num(image.height), Rat(25, 100)),
     width |-> RMul(Num(image.width), Rat(5, 10)),
     height |-> RMul(Num(image.height), Rat(5, 10)),
     eyeDistance |-> Null, noseTip |-> Null]

ArgOffsets ==
    { Point(Zero, Zero), Point(Num(-300), Num(-50)), Point(Num(500), Num(120)),
      Point(Rat(21, 2), Rat(-37, 4)) }

\* Zoom factors of the slider range, as slider percentages.
ArgZooms == { 50, 75, 100, 125, 150 }

MaxCalls == 3

\* The arguments of the direct calls are drawn (the face is a detected one or
\* the geometry substituted when detection fails); the app is in its initial
\* state (the module-level initialisers of app.js) and stays there.
InitCrop ==
    /\ argImage \in ArgImages
    /\ argFace \in { f \in ArgFaces : FaceFits(argImage, f) }
                    \cup { FallbackFace(argImage) }
    /\ argOffset \in ArgOffsets
    /\ calls = <<>>
    /\ currentImage = Null
    /\ currentTokenData = Null
    /\ currentFaceData = Null
    /\ currentColorScheme = Null
    /\ currentZoomAdjustment = Num(1)
    /\ currentCropOffset = Point(Zero, Zero)
    /\ isDragging = FALSE
    /\ dragStart = Point(0, 0)
    /\ dragStartOffset = Point(Zero, Zero)
    /\ lastCropData = Null
    /\ currentBorderOptions = DefaultBorderOptions
    /\ currentFileName = NoFileName
    /\ screen = "upload"
    /\ errorMessage = NoError
    /\ zoomSlider = 100
    /\ preview = Null
    /\ zoomTimeout = Null
    /\ tokenAdjustments = <<>>
    /\ adjustmentSummary = Null
    /\ pending = {}
    /\ uploads = 0
    /\ moves = 0
    /\ wheels = 0
    /\ gesture = NoGesture
    /\ tokensCreated = <<"0">>
    /\ tokenCountText = <<"0">>
    /\ blobCallbacks = <<>>
    /\ downloaded = <<>>
    /\ clicks = 0
    /\ tokenCount = 0
    /\ tokensFile = 0
    /\ writeQueue = IdleQueue
    /\ bootCount = 0
    /\ responses = <<>>
    /\ drawArgs = Null
    /\ surface = Null

\* Mutant: the call adds the offset to the object it was given (centerX +=
\* cropOffset.x written the other way round).
CallCrop_WritesOffset(z) ==
    /\ Len(calls) < MaxCalls
    /\ calls' = Append(calls,
           [zoom |-> Rat(z, 100),
            result |-> calculateCropArea(argImage, argFace,
                                         tokenSize - (tokenBorderWidth * 2),
                                         Rat(z, 100), argOffset)])
    /\ argOffset' = Point(RAdd(argOffset.x, BaseCrop(argFace).centerX),
                          RAdd(argOffset.y, BaseCrop(argFace).centerY))
    /\ UNCHANGED <<argImage, argFace, appVars, drawVars, downloadVars, serverVars>>

\* One call of calculateCropArea with the drawn image, face and offset and a
\* zoom factor of the slider range.  The function assigns to its local
\* variables only: the objects it was given stay as they are.
CallCrop(z) ==
    /\ Len(calls) < MaxCalls
    /\ calls' = Append(calls,
           [zoom |-> Rat(z, 100),
            result |-> calculateCropArea(argImage, argFace,
                                         tokenSize - (tokenBorderWidth * 2),
                                         Rat(z, 100), argOffset)])
    /\ UNCHANGED <<argImage, argFace, argOffset, appVars, drawVars, serverVars,
                   downloadVars>>

NextCrop == \E z \in ArgZooms : CallCrop(z)

SpecCrop == InitCrop /\ [][NextCrop]_vars

(***************************************************************************)
(* Direct calls of the border drawing functions on drawn arguments         *)
(***************************************************************************)

Colour(r, g, b) == [r |-> r, g |-> g, b |-> b]

\* Colour schemes as extractColorScheme produces them (channels are numbers,
\* not necessarily whole).
DrawSchemes ==
    { [primary |-> Colour(Num(255), Num(215), Num(0)),
       secondary |-> Colour(Num(192), Num(192), Num(192)),
       accent |-> Colour(Num(184), Num(115), Num(51)),
       border |-> Colour(Num(30), Num(30), Num(30))],
      [primary |-> Colour(Rat(255, 2), Rat(401, 4), Num(60)),
       secondary |-> Colour(Num(30), Num(144), Num(255)),
       accent |-> Colour(Num(34), Num(139), Num(34)),
       border |-> Colour(Num(0), Num(0), Num(0))] }

DrawSizes == { 64, 128, 512 }

DrawWidths == { 8, 16 }

\* The arguments of the call are drawn; the surface is empty (every pixel of
\* a new canvas is transparent); the app is in its initial state.
InitBorder ==
    /\ drawArgs \in [texture : BORDER_TEXTURES, size : DrawSizes,
                     borderWidth : DrawWidths, colors : DrawSchemes]
    /\ surface = [drawn |-> FALSE,
                  pixels |-> [p \in SamplePixels(drawArgs.size,
                                                 drawArgs.borderWidth)
                                  |-> ClearPixel]]
    /\ argImage = Null
    /\ argFace = Null
    /\ argOffset = Null
    /\ calls = <<>>
    /\ currentImage = Null
    /\ currentTokenData = Null
    /\ currentFaceData = Null
    /\ currentColorScheme = Null
    /\ currentZoomAdjustment = Num(1)
    /\ currentCropOffset = Point(Zero, Zero)
    /\ isDragging = FALSE
    /\ dragStart = Point(0, 0)
    /\ dragStartOffset = Point(Zero, Zero)
    /\ lastCropData = Null
    /\ currentBorderOptions = DefaultBorderOptions
    /\ currentFileName = NoFileName
    /\ screen = "upload"
    /\ errorMessage = NoError
    /\ zoomSlider = 100
    /\ preview = Null
    /\ zoomTimeout = Null
    /\ tokenAdjustments = <<>>
    /\ adjustmentSummary = Null
    /\ pending = {}
    /\ uploads = 0
    /\ moves = 0
    /\ wheels = 0
    /\ gesture = NoGesture
    /\ tokensCreated = <<"0">>
    /\ tokenCountText = <<"0">>
    /\ blobCallbacks = <<>>
    /\ downloaded = <<>>
    /\ clicks = 0
    /\ tokenCount = 0
    /\ tokensFile = 0
    /\ writeQueue = IdleQueue
    /\ bootCount = 0
    /\ responses = <<>>

\* getTextureDefinition(texture).draw(ctx, size, borderWidth, colors) on the
\* empty surface.
CallDraw ==
    /\ ~surface.drawn
    /\ surface' = [drawn |-> TRUE,
                   pixels |-> DrawTexture(drawArgs.texture, surface.pixels,
                                          drawArgs.size, drawArgs.borderWidth,
                                          drawArgs.colors)]
    /\ UNCHANGED <<drawArgs, appVars, cropVars, downloadVars, serverVars>>

NextBorder == CallDraw

SpecBorder == InitBorder /\ [][NextBorder]_vars

(***************************************************************************)
(* The environment of app.js: files, pointer positions, slider values      *)
(***************************************************************************)

\* An uploaded file: its name (a sequence of characters), whether its MIME
\* type starts with "image/", whether it decodes, the decoded image and what
\* face detection returns for it (Null: no face detected).
Files ==
    { [name |-> <<"h", "e", "r", "o", ".", "p", "n", "g">>, isImage |-> TRUE,
       decodes |-> TRUE, image |-> ImgPortrait,
       face |-> LandmarkFace(400, 400, 200, 250, Num(50), 500, 520)],
      [name |-> <<"m", "y", " ", "m", "a", "p", ".", "j", "p", "g">>,
       isImage |-> TRUE, decodes |-> TRUE, image |-> ImgSmall, face |-> Null],
      [name |-> <<"b", "a", "d", ".", "p", "n", "g">>, isImage |-> TRUE,
       decodes |-> FALSE, image |-> Null, face |-> Null],
      [name |-> <<"n", "o", "t", "e", "s", ".", "t", "x", "t">>,
       isImage |-> FALSE, decodes |-> FALSE, image |-> Null, face |-> Null] }

\* Pointer positions relative to the preview canvas.
Pointers == { Point(200, 200), Point(260, 170) }

\* deltaY of a wheel event: scroll up, no vertical scroll, scroll down.
WheelDeltas == { -100, 0, 100 }

\* Values the zoom slider can deliver.
SliderValues == { 50, 100, 150 }

\* Whether createToken returns (TRUE) or throws (FALSE).
RenderOutcomes == { TRUE }

MaxUploads == 2
MaxMoves == 3
MaxAdjustments == 1
MaxWheels == 2

\* Uploads in the specifications that follow the editing of one image, and
\* mouse moves in the specification that follows the loading of images.
MaxEditUploads == 1
MaxLoadMoves == 1

\* Clicks on the download button.
MaxDownloads == 2

\* Uploads while the zoom controls are exercised.
MaxZoomUploads == 2

(***************************************************************************)
(* app.js: helpers                                                         *)
(***************************************************************************)

AllowedChars ==
    { "a", "b", "c", "d", "e", "f", "g", "h", "i", "j", "k", "l", "m", "n", "o",
      "p", "q", "r", "s", "t", "u", "v", "w", "x", "y", "z",
      "A", "B", "C", "D", "E", "F", "G", "H", "I", "J", "K", "L", "M", "N", "O",
      "P", "Q", "R", "S", "T", "U", "V", "W", "X", "Y", "Z",
      "0", "1", "2", "3", "4", "5", "6", "7", "8", "9", "_", "-" }

fileNameMaxLength == 50
DefaultFileName == <<"i", "m", "a", "g", "e">>

SetMax(S) == CHOOSE m \in S : \A k \in S : k <= m

\* String.prototype.lastIndexOf for a single character (0-based, -1: none).
LastIndexOf(str, ch) ==
    LET at == { i \in 1..Len(str) : str[i] = ch }
    IN  IF at = {} THEN -1 ELSE SetMax(at) - 1

\* The stored file name of handleFile: extension removed, characters outside
\* [a-zA-Z0-9_-] replaced by "_", cut to 50 characters, "image" when empty.
SanitizeFileName(name) ==
    LET given == IF name = <<>> THEN DefaultFileName ELSE name
        lastDotIndex == LastIndexOf(given, ".")
        fileNameWithoutExt == IF lastDotIndex > 0 THEN SubSeq(given, 1, lastDotIndex)
                                                  ELSE given
        replaced == [i \in 1..Len(fileNameWithoutExt) |->
                        IF fileNameWithoutExt[i] \in AllowedChars
                        THEN fileNameWithoutExt[i] ELSE "_"]
        cut == SubSeq(replaced, 1,
                      IF Len(replaced) < fileNameMaxLength THEN Len(replaced)
                                                           ELSE fileNameMaxLength)
    IN  IF cut = <<>> THEN DefaultFileName ELSE cut

\* extractColorScheme is a black box: four colours that depend on the image
\* and on the face region sampled (the channels stand for the colours it
\* finds; they need not be whole numbers).
SchemeColour(image, faceData, role) ==
    [r |-> CASE role = "primary" -> Rat(241, 2) [] role = "secondary" -> Num(200)
             [] role = "accent" -> Num(60) [] OTHER -> Num(96),
     g |-> CASE role = "primary" -> Num(80) [] role = "secondary" -> Num(180)
             [] role = "accent" -> Num(90) [] OTHER -> Num(64),
     b |-> CASE role = "primary" -> Num(40) [] role = "secondary" -> Num(160)
             [] role = "accent" -> Num(150) [] OTHER -> Num(32),
     role |-> role, image |-> image.id,
     region |-> <<faceData.x, faceData.y, faceData.width, faceData.height>>]

extractColorScheme(image, faceData) ==
    [primary |-> SchemeColour(image, faceData, "primary"),
     secondary |-> SchemeColour(image, faceData, "secondary"),
     accent |-> SchemeColour(image, faceData, "accent"),
     border |-> SchemeColour(image, faceData, "border")]

\* Mutant: a failed composition clears the current token.
RegenerateToken_ClearsOnFailure(zoom, offset, options, rendered) ==
    IF currentImage = Null \/ currentFaceData = Null \/ currentColorScheme = Null
    THEN UNCHANGED <<currentTokenData, lastCropData, preview>>
    ELSE IF ~rendered
    THEN /\ currentTokenData' = Null
         /\ UNCHANGED <<lastCropData, preview>>
    ELSE LET tokenData == createToken(currentImage, currentFaceData,
                                      currentColorScheme, zoom, offset, options)
         IN  /\ currentTokenData' = tokenData
             /\ lastCropData' = currentTokenData'.cropData
             /\ preview' = currentTokenData'

\* regenerateToken with the zoom, offset and border options just assigned.
\* rendered is FALSE when createToken throws (no drawing surface): the catch
\* block logs and leaves the token, the crop data and the preview alone.
RegenerateToken(zoom, offset, options, rendered) ==
    IF currentImage = Null \/ currentFaceData = Null \/ currentColorScheme = Null
       \/ ~rendered
    THEN UNCHANGED <<currentTokenData, lastCropData, preview>>
    ELSE LET tokenData == createToken(currentImage, currentFaceData,
                                      currentColorScheme, zoom, offset, options)
         IN  /\ currentTokenData' = tokenData
             /\ lastCropData' = currentTokenData'.cropData
             /\ preview' = currentTokenData'

\* if (!handleZoomChange.timeout) handleZoomChange.timeout = setTimeout(...)
ArmZoomTimer(value) ==
    zoomTimeout' = IF zoomTimeout = Null THEN [value |-> value] ELSE zoomTimeout

(***************************************************************************)
(* app.js: upload and processing                                           *)
(***************************************************************************)

\* Mutant: handleFile stores the file name and shows the processing area
\* before it tests the type of the file.
HandleFile_ChecksTypeLate(file) ==
    /\ uploads < MaxUploads
    /\ uploads' = uploads + 1
    /\ screen' = "processing"
    /\ currentFileName' = SanitizeFileName(file.name)
    /\ IF ~file.isImage
       THEN /\ errorMessage' = "Please upload an image file."
            /\ UNCHANGED pending
       ELSE /\ errorMessage' = NoError
            /\ pending' = pending \cup
                   { [id |-> uploads + 1, file |-> file, stage |-> "loading"] }
    /\ UNCHANGED <<currentImage, currentTokenData, currentFaceData,
                   currentColorScheme, currentZoomAdjustment, currentCropOffset,
                   isDragging, dragStart, dragStartOffset, lastCropData,
                   currentBorderOptions, zoomSlider, preview, zoomTimeout,
                   tokenAdjustments, adjustmentSummary, moves, wheels, cropVars, drawVars, downloadVars, serverVars>>

\* handleFile up to its first await (loadImage).
HandleFile(file) ==
    /\ uploads < MaxUploads
    /\ uploads' = uploads + 1
    /\ IF ~file.isImage
       THEN /\ errorMessage' = "Please upload an image file."
            /\ UNCHANGED <<screen, currentFileName, pending>>
       ELSE /\ errorMessage' = NoError
            /\ screen' = "processing"
            /\ currentFileName' = SanitizeFileName(file.name)
            /\ pending' = pending \cup
                   { [id |-> uploads + 1, file |-> file, stage |-> "loading"] }
    /\ UNCHANGED <<currentImage, currentTokenData, currentFaceData,
                   currentColorScheme, currentZoomAdjustment, currentCropOffset,
                   isDragging, dragStart, dragStartOffset, lastCropData,
                   currentBorderOptions, zoomSlider, preview, zoomTimeout,
                   tokenAdjustments, adjustmentSummary, moves, wheels, cropVars, drawVars, downloadVars, serverVars>>

\* loadImage settles: handleFile stores the image and calls processImage,
\* which awaits detectFace; or the load is rejected and handleFile's catch
\* shows the error and the upload area.
LoadImageSettles(task) ==
    /\ task \in pending
    /\ task.stage = "loading"
    /\ IF task.file.decodes
       THEN /\ currentImage' = task.file.image
            /\ pending' = (pending \ {task}) \cup
                              { [task EXCEPT !.stage = "detecting"] }
            /\ UNCHANGED <<errorMessage, screen>>
       ELSE /\ pending' = pending \ {task}
            /\ errorMessage' = "Failed to process image"
            /\ screen' = "upload"
            /\ UNCHANGED currentImage
    /\ UNCHANGED <<currentTokenData, currentFaceData, currentColorScheme,
                   currentZoomAdjustment, currentCropOffset, isDragging,
                   dragStart, dragStartOffset, lastCropData,
                   currentBorderOptions, currentFileName, zoomSlider, preview,
                   zoomTimeout, tokenAdjustments, adjustmentSummary, uploads,
                   moves, wheels, cropVars, drawVars, downloadVars, serverVars>>

\* Mutant: the load resets the zoom but leaves the pan offset of the session.
ProcessImageReset_KeepsPan ==
    [zoom |-> Num(1), offset |-> currentCropOffset, slider |-> 100,
     border |-> DefaultBorderOptions]

\* "Reset zoom and offset to default" and "Reset border options to default"
\* of processImage and processImageFallback.
ProcessImageReset ==
    [zoom |-> Num(1), offset |-> Point(Zero, Zero), slider |-> 100,
     border |-> DefaultBorderOptions]

\* detectFace settles and processImage runs to its end.  With a face and a
\* token rendered, the body of processImage; otherwise (no face, or
\* createToken threw) processImageFallback, whose own createToken may throw
\* too (renderedFallback = FALSE), which handleFile's catch reports.
DetectFaceSettles(task, rendered, renderedFallback) ==
    /\ task \in pending
    /\ task.stage = "detecting"
    /\ LET image == task.file.image
           useDetected == task.file.face # Null /\ rendered
           faceData == IF useDetected THEN task.file.face ELSE FallbackFace(image)
           colorScheme == extractColorScheme(image, faceData)
           reset == ProcessImageReset
           tokenData == createToken(image, faceData, colorScheme, reset.zoom,
                                    reset.offset, reset.border)
       IN  /\ currentFaceData' = faceData
           /\ currentColorScheme' = colorScheme
           /\ currentZoomAdjustment' = reset.zoom
           /\ currentCropOffset' = reset.offset
           /\ zoomSlider' = reset.slider
           /\ currentBorderOptions' = reset.border
           /\ IF useDetected \/ renderedFallback
              THEN /\ currentTokenData' = tokenData
                   /\ lastCropData' = currentTokenData'.cropData
                   /\ preview' = currentTokenData'
                   /\ screen' = "preview"
                   /\ UNCHANGED errorMessage
              ELSE /\ errorMessage' = "Failed to process image"
                   /\ screen' = "upload"
                   /\ UNCHANGED <<currentTokenData, lastCropData, preview>>
    /\ pending' = pending \ {task}
    /\ UNCHANGED <<currentImage, isDragging, dragStart, dragStartOffset,
                   currentFileName, zoomTimeout, tokenAdjustments,
                   adjustmentSummary, uploads, moves, wheels, cropVars, drawVars, downloadVars, serverVars>>

(***************************************************************************)
(* app.js: zoom slider and adjustment log                                  *)
(***************************************************************************)

\* handleZoomChange for a slider event; the slider holds the value delivered.
HandleZoomChange(value, rendered) ==
    /\ Len(tokenAdjustments) < MaxAdjustments
    /\ zoomSlider' = value
    /\ IF currentImage = Null \/ currentFaceData = Null \/ currentColorScheme = Null
       THEN UNCHANGED <<currentZoomAdjustment, currentTokenData, lastCropData,
                        preview, zoomTimeout>>
       ELSE /\ currentZoomAdjustment' = Rat(value, 100)
            /\ RegenerateToken(Rat(value, 100), currentCropOffset,
                               currentBorderOptions, rendered)
            /\ ArmZoomTimer(value)
    /\ UNCHANGED <<currentImage, currentFaceData, currentColorScheme,
                   currentCropOffset, isDragging, dragStart, dragStartOffset,
                   currentBorderOptions, currentFileName, screen, errorMessage,
                   tokenAdjustments, adjustmentSummary, pending, uploads, moves,
                   wheels, cropVars, drawVars, downloadVars, serverVars>>

maxStoredAdjustments == 1000

\* The sum of the zoom values of log[lo..hi], halving the range (the values
\* are integers: the order of the additions does not matter).
RECURSIVE SumZoomValuesIn(_, _, _)
SumZoomValuesIn(log, lo, hi) ==
    IF lo > hi THEN 0
    ELSE IF lo = hi THEN log[lo].zoomValue
    ELSE LET mid == (lo + hi) \div 2
         IN  SumZoomValuesIn(log, lo, mid) + SumZoomValuesIn(log, mid + 1, hi)

\* adjustments.reduce((sum, a) => sum + a.zoomValue, 0)
SumZoomValues(log) == SumZoomValuesIn(log, 1, Len(log))

\* updateAdjustmentSummary
AdjustmentSummary(log) ==
    [totalAdjustments |-> Len(log),
     averageZoom |-> Rat(SumZoomValues(log), Len(log)),
     adjustmentRate |->
         RMul(Rat(Cardinality({ i \in DOMAIN log : log[i].zoomValue # 100 }),
                  Len(log)),
              Num(100))]

\* The record storeAdjustmentData appends (the timestamp is left out).
AdjustmentRecord(value) ==
    [zoomValue |-> value,
     zoomAdjustment |-> currentZoomAdjustment,
     faceData |->
         [width |-> currentFaceData.width,
          height |-> currentFaceData.height,
          relativeWidth |-> RMul(RDiv(currentFaceData.width,
                                      Num(currentImage.width)), Num(100)),
          relativeHeight |-> RMul(RDiv(currentFaceData.height,
                                       Num(currentImage.height)), Num(100))],
     imageSize |-> [width |-> currentImage.width, height |-> currentImage.height]]

\* Mutant: the log is trimmed as soon as it has reached the limit (>= in the
\* place of >).
ZoomTimerFires_TrimsAtLimit ==
    /\ zoomTimeout # Null
    /\ zoomTimeout' = Null
    /\ IF currentFaceData = Null \/ currentImage = Null
       THEN UNCHANGED <<tokenAdjustments, adjustmentSummary>>
       ELSE LET pushed == Append(tokenAdjustments,
                                 AdjustmentRecord(zoomTimeout.value))
                kept == IF Len(pushed) >= maxStoredAdjustments THEN Tail(pushed)
                                                               ELSE pushed
            IN  /\ tokenAdjustments' = kept
                /\ adjustmentSummary' = AdjustmentSummary(kept)
    /\ UNCHANGED <<currentImage, currentTokenData, currentFaceData,
                   currentColorScheme, currentZoomAdjustment, currentCropOffset,
                   isDragging, dragStart, dragStartOffset, lastCropData,
                   currentBorderOptions, currentFileName, screen, errorMessage,
                   zoomSlider, preview, pending, uploads, moves, wheels, cropVars, drawVars, downloadVars, serverVars>>

\* The 500 ms timer of handleZoomChange fires: storeAdjustmentData(value),
\* whose try block throws (and stores nothing) when no face or image is set.
ZoomTimerFires ==
    /\ zoomTimeout # Null
    /\ zoomTimeout' = Null
    /\ IF currentFaceData = Null \/ currentImage = Null
       THEN UNCHANGED <<tokenAdjustments, adjustmentSummary>>
       ELSE LET pushed == Append(tokenAdjustments,
                                 AdjustmentRecord(zoomTimeout.value))
                kept == IF Len(pushed) > maxStoredAdjustments THEN Tail(pushed)
                                                              ELSE pushed
            IN  /\ tokenAdjustments' = kept
                /\ adjustmentSummary' = AdjustmentSummary(kept)
    /\ UNCHANGED <<currentImage, currentTokenData, currentFaceData,
                   currentColorScheme, currentZoomAdjustment, currentCropOffset,
                   isDragging, dragStart, dragStartOffset, lastCropData,
                   currentBorderOptions, currentFileName, screen, errorMessage,
                   zoomSlider, preview, pending, uploads, moves, wheels, cropVars, drawVars, downloadVars, serverVars>>

(***************************************************************************)
(* app.js: setupDragFunctionality                                          *)
(***************************************************************************)

dragBorderWidth == 8

\* Mutant: mousedown records only the x coordinate of the offset.
DragStartOffsetAtMouseDown_OnlyX == Point(currentCropOffset.x, dragStartOffset.y)

\* dragStartOffset.x = currentCropOffset.x; dragStartOffset.y = currentCropOffset.y
DragStartOffsetAtMouseDown == Point(currentCropOffset.x, currentCropOffset.y)

\* The offset the mousemove handler stores for a pointer at pos.
DragOffset(pos) ==
    LET deltaX == pos.x - dragStart.x
        deltaY == pos.y - dragStart.y
        imageSize == tokenSize - (dragBorderWidth * 2)
        scaleFactorX == RDiv(lastCropData.width, Num(imageSize))
        scaleFactorY == RDiv(lastCropData.height, Num(imageSize))
    IN  Point(RSub(dragStartOffset.x, RMul(Num(deltaX), scaleFactorX)),
              RSub(dragStartOffset.y, RMul(Num(deltaY), scaleFactorY)))

MouseDown(pos) ==
    /\ IF currentImage = Null \/ currentFaceData = Null
       THEN UNCHANGED <<isDragging, dragStart, dragStartOffset>>
       ELSE /\ isDragging' = TRUE
            /\ dragStart' = pos
            /\ dragStartOffset' = DragStartOffsetAtMouseDown
    /\ UNCHANGED <<currentImage, currentTokenData, currentFaceData,
                   currentColorScheme, currentZoomAdjustment, currentCropOffset,
                   lastCropData, currentBorderOptions, currentFileName, screen,
                   errorMessage, zoomSlider, preview, zoomTimeout,
                   tokenAdjustments, adjustmentSummary, pending, uploads, moves,
                   wheels, cropVars, drawVars, downloadVars, serverVars>>

\* The early return of the mousemove handler is not taken.
DragMoveHandled ==
    isDragging /\ currentImage # Null /\ currentFaceData # Null /\ lastCropData # Null

MouseMove(pos, rendered) ==
    /\ IF ~DragMoveHandled
       THEN UNCHANGED <<currentCropOffset, currentTokenData, lastCropData, preview,
                        moves>>
       ELSE /\ moves < MaxMoves
            /\ moves' = moves + 1
            /\ currentCropOffset' = DragOffset(pos)
            /\ RegenerateToken(currentZoomAdjustment, DragOffset(pos),
                               currentBorderOptions, rendered)
    /\ UNCHANGED <<currentImage, currentFaceData, currentColorScheme,
                   currentZoomAdjustment, isDragging, dragStart, dragStartOffset,
                   currentBorderOptions, currentFileName, screen, errorMessage,
                   zoomSlider, zoomTimeout, tokenAdjustments, adjustmentSummary,
                   pending, uploads, wheels, cropVars, drawVars, downloadVars, serverVars>>

MouseUp ==
    /\ isDragging' = FALSE
    /\ UNCHANGED <<currentImage, currentTokenData, currentFaceData,
                   currentColorScheme, currentZoomAdjustment, currentCropOffset,
                   dragStart, dragStartOffset, lastCropData, currentBorderOptions,
                   currentFileName, screen, errorMessage, zoomSlider, preview,
                   zoomTimeout, tokenAdjustments, adjustmentSummary, pending,
                   uploads, moves, wheels, cropVars, drawVars, downloadVars, serverVars>>

\* Mutant: leaving the canvas cancels the drag and puts the offset back.
MouseLeave_RestoresOffset ==
    /\ isDragging' = FALSE
    /\ currentCropOffset' = Point(dragStartOffset.x, dragStartOffset.y)
    /\ UNCHANGED <<currentImage, currentTokenData, currentFaceData,
                   currentColorScheme, currentZoomAdjustment,
                   dragStart, dragStartOffset, lastCropData, currentBorderOptions,
                   currentFileName, screen, errorMessage, zoomSlider, preview,
                   zoomTimeout, tokenAdjustments, adjustmentSummary, pending,
                   uploads, moves, wheels, cropVars, drawVars, downloadVars, serverVars>>

\* if (isDragging) isDragging = false
MouseLeave ==
    /\ isDragging' = FALSE
    /\ UNCHANGED <<currentImage, currentTokenData, currentFaceData,
                   currentColorScheme, currentZoomAdjustment, currentCropOffset,
                   dragStart, dragStartOffset, lastCropData, currentBorderOptions,
                   currentFileName, screen, errorMessage, zoomSlider, preview,
                   zoomTimeout, tokenAdjustments, adjustmentSummary, pending,
                   uploads, moves, wheels, cropVars, drawVars, downloadVars, serverVars>>

\* Mutant: the wheel handler without Math.max / Math.min.
WheelSliderValue_NoClamp(deltaY) ==
    zoomSlider + (IF deltaY > 0 THEN -5 ELSE 5)

\* newSliderValue = Math.max(50, Math.min(150, currentSliderValue + zoomDelta))
WheelSliderValue(deltaY) ==
    LET zoomDelta == IF deltaY > 0 THEN -5 ELSE 5
        raised == zoomSlider + zoomDelta
        capped == IF 150 < raised THEN 150 ELSE raised
    IN  IF 50 > capped THEN 50 ELSE capped

\* The wheel listener of the preview canvas.
Wheel(deltaY, rendered) ==
    /\ wheels < MaxWheels
    /\ wheels' = wheels + 1
    /\ IF currentImage = Null \/ currentFaceData = Null
       THEN UNCHANGED <<zoomSlider, currentZoomAdjustment, currentTokenData,
                        lastCropData, preview, zoomTimeout>>
       ELSE LET newSliderValue == WheelSliderValue(deltaY)
            IN  /\ zoomSlider' = newSliderValue
                /\ currentZoomAdjustment' = Rat(newSliderValue, 100)
                /\ RegenerateToken(Rat(newSliderValue, 100), currentCropOffset,
                                   currentBorderOptions, rendered)
                /\ ArmZoomTimer(newSliderValue)
    /\ UNCHANGED <<currentImage, currentFaceData, currentColorScheme,
                   currentCropOffset, isDragging, dragStart, dragStartOffset,
                   currentBorderOptions, currentFileName, screen, errorMessage,
                   tokenAdjustments, adjustmentSummary, pending, uploads, moves,
                   cropVars, drawVars, downloadVars, serverVars>>

(***************************************************************************)
(* app.js: border colour and texture                                       *)
(***************************************************************************)

\* COLOR_SWATCHES (the swatches the model clicks)
Swatch(name, r, g, b) == [name |-> name, r |-> Num(r), g |-> Num(g), b |-> Num(b)]

COLOR_SWATCHES == { Swatch("Gold", 255, 215, 0), Swatch("Black", 0, 0, 0) }

\* A border control assigns options to currentBorderOptions, updates the
\* swatches and regenerates the token.
SetBorderOptions(options, rendered) ==
    /\ currentBorderOptions' = options
    /\ RegenerateToken(currentZoomAdjustment, currentCropOffset, options,
                       rendered)
    /\ UNCHANGED <<currentImage, currentFaceData, currentColorScheme,
                   currentZoomAdjustment, currentCropOffset, isDragging,
                   dragStart, dragStartOffset, currentFileName, screen,
                   errorMessage, zoomSlider, zoomTimeout, tokenAdjustments,
                   adjustmentSummary, pending, uploads, moves, wheels,
                   cropVars, drawVars, downloadVars, serverVars>>

SelectBorderColor(color, rendered) ==
    SetBorderOptions([currentBorderOptions EXCEPT !.customColor = color],
                     rendered)

SelectBorderTexture(textureType, rendered) ==
    SetBorderOptions([currentBorderOptions EXCEPT !.texture = textureType],
                     rendered)

ResetBorderColor(rendered) ==
    SetBorderOptions([currentBorderOptions EXCEPT !.customColor = Null],
                     rendered)

ResetBorderTexture(rendered) ==
    SetBorderOptions([currentBorderOptions EXCEPT !.texture = "gradient"],
                     rendered)

(***************************************************************************)
(* app.js: border thickness, reset                                         *)
(***************************************************************************)

\* Mutant: every click widens the border by 8.
ToggleBorderThickness_Widens(rendered) ==
    LET options == [currentBorderOptions EXCEPT
                       !.borderWidth = currentBorderOptions.borderWidth + 8]
    IN  /\ currentBorderOptions' = options
        /\ RegenerateToken(currentZoomAdjustment, currentCropOffset, options,
                           rendered)
        /\ UNCHANGED <<currentImage, currentFaceData, currentColorScheme,
                       currentZoomAdjustment, currentCropOffset, isDragging,
                       dragStart, dragStartOffset, currentFileName, screen,
                       errorMessage, zoomSlider, zoomTimeout, tokenAdjustments,
                       adjustmentSummary, pending, uploads, moves, wheels,
                       cropVars, drawVars, downloadVars, serverVars>>

\* toggleBorderThickness: 8 becomes 16, anything else becomes 8.
ToggleBorderThickness(rendered) ==
    LET options == [currentBorderOptions EXCEPT
                       !.borderWidth = IF currentBorderOptions.borderWidth = 8
                                       THEN 16 ELSE 8]
    IN  /\ currentBorderOptions' = options
        /\ RegenerateToken(currentZoomAdjustment, currentCropOffset, options,
                           rendered)
        /\ UNCHANGED <<currentImage, currentFaceData, currentColorScheme,
                       currentZoomAdjustment, currentCropOffset, isDragging,
                       dragStart, dragStartOffset, currentFileName, screen,
                       errorMessage, zoomSlider, zoomTimeout, tokenAdjustments,
                       adjustmentSummary, pending, uploads, moves, wheels, cropVars, drawVars, downloadVars, serverVars>>

ResetApp ==
    /\ currentImage' = Null
    /\ currentTokenData' = Null
    /\ currentFaceData' = Null
    /\ currentColorScheme' = Null
    /\ currentZoomAdjustment' = Num(1)
    /\ currentCropOffset' = Point(Zero, Zero)
    /\ currentBorderOptions' = DefaultBorderOptions
    /\ currentFileName' = NoFileName
    /\ isDragging' = FALSE
    /\ zoomSlider' = 100
    /\ errorMessage' = NoError
    /\ screen' = "upload"
    /\ UNCHANGED <<dragStart, dragStartOffset, lastCropData, preview,
                   zoomTimeout, tokenAdjustments, adjustmentSummary, pending,
                   uploads, moves, wheels, cropVars, drawVars, downloadVars, serverVars>>

(***************************************************************************)
(* app.js: the tokens-created counter and the download                     *)
(*                                                                         *)
(* localStorage is taken to work: getItem and setItem do not throw.        *)
(***************************************************************************)

DigitChars == <<"0", "1", "2", "3", "4", "5", "6", "7", "8", "9">>

DigitValue(ch) == (CHOOSE i \in 1..10 : DigitChars[i] = ch) - 1

IsDigit(ch) == \E i \in 1..10 : DigitChars[i] = ch

\* String(n) for a whole number n >= 0
RECURSIVE NumberToString(_)
NumberToString(n) ==
    IF n < 10 THEN <<DigitChars[n + 1]>>
    ELSE Append(NumberToString(n \div 10), DigitChars[(n % 10) + 1])

RECURSIVE DigitsValue(_)
DigitsValue(str) ==
    IF str = <<>> THEN 0
    ELSE (10 * DigitsValue(SubSeq(str, 1, Len(str) - 1)))
             + DigitValue(str[Len(str)])

\* parseInt(str, 10): an optional sign and the leading digits; NaN when
\* there is no digit.
ParseInt(str) ==
    LET negative == str # <<>> /\ str[1] = "-"
        rest == IF negative THEN Tail(str) ELSE str
        count == SetMax({ i \in 0..Len(rest) :
                             \A j \in 1..i : IsDigit(rest[j]) })
        value == DigitsValue(SubSeq(rest, 1, count))
    IN  [nan |-> count = 0, value |-> IF negative THEN -value ELSE value]

\* parseInt(raw || '0', 10); the item exists once init() has written it.
getTokensCreatedCount ==
    LET raw == tokensCreated
        parsed == ParseInt(IF raw = <<>> THEN <<"0">> ELSE raw)
    IN  IF parsed.nan \/ parsed.value < 0 THEN 0 ELSE parsed.value

\* Math.max(0, Math.floor(Number(count) || 0)) is stored and shown.
setTokensCreatedCount(count) ==
    LET safe == IF count < 0 THEN 0 ELSE count
    IN  /\ tokensCreated' = NumberToString(safe)
        /\ tokenCountText' = NumberToString(safe)

\* Mutant: the incremented count is shown but not stored.
incrementTokensCreatedCount_Display ==
    /\ tokenCountText' = NumberToString(getTokensCreatedCount + 1)
    /\ UNCHANGED tokensCreated

incrementTokensCreatedCount == setTokensCreatedCount(getTokensCreatedCount + 1)

\* String.prototype.trim (blanks are the only white space of the model)
RECURSIVE Trim(_)
Trim(str) ==
    IF str = <<>> THEN str
    ELSE IF str[1] = " " THEN Trim(Tail(str))
    ELSE IF str[Len(str)] = " " THEN Trim(SubSeq(str, 1, Len(str) - 1))
    ELSE str

\* The name of the downloaded file.
DownloadFileName ==
    LET plain == <<"t", "o", "k", "e", "n", ".", "p", "n", "g">>
        cleanName == Trim(currentFileName)
    IN  IF currentFileName = NoFileName THEN plain
        ELSE IF cleanName \in { <<>>, <<"n", "u", "l", "l">>,
                                 <<"u", "n", "d", "e", "f", "i", "n", "e", "d">> }
        THEN plain
        ELSE <<"t", "o", "k", "e", "n", "_">> \o cleanName
                 \o <<".", "p", "n", "g">>

\* A click on the download button: downloadToken returns when there is no
\* token; otherwise it hands the canvas of the token to canvas.toBlob, whose
\* callback runs later.
DownloadToken ==
    /\ clicks < MaxDownloads
    /\ clicks' = clicks + 1
    /\ IF currentTokenData = Null
       THEN UNCHANGED blobCallbacks
       ELSE blobCallbacks' = Append(blobCallbacks,
                                    [fileName |-> DownloadFileName,
                                     canvas |-> currentTokenData])
    /\ UNCHANGED <<tokensCreated, tokenCountText, downloaded, appVars,
                   cropVars, drawVars, serverVars>>

\* The callback of canvas.toBlob: with a blob or without one (then the data
\* URL of the canvas is used) the link is clicked and the counter
\* incremented.
ToBlobCallback(i, blob) ==
    /\ i \in DOMAIN blobCallbacks
    /\ blobCallbacks' = SubSeq(blobCallbacks, 1, i - 1)
                            \o SubSeq(blobCallbacks, i + 1, Len(blobCallbacks))
    /\ downloaded' = Append(downloaded,
                            [fileName |-> blobCallbacks[i].fileName,
                             href |-> IF blob THEN "blob" ELSE "data"])
    /\ incrementTokensCreatedCount
    /\ UNCHANGED <<clicks, appVars, cropVars, drawVars, serverVars>>

(***************************************************************************)
(* The backend of the tokens-created counter                               *)
(***************************************************************************)

\* Requests to POST /api/tokens/increment in one run.
MaxRequests == 5

\* The counts initTokenCount finds in tokens.json.
StoredServerCounts == { 0, 41 }

\* app.get('/api/tokens/count'): res.json({ count: tokenCount })
CountServed == tokenCount

\* The requests that have arrived.
RequestsReceived == Len(responses) + Len(writeQueue.tasks)

\* The counts of the responses with status 200, in the order they were sent.
SuccessfulCounts ==
    LET ok == SelectSeq(responses, LAMBDA r : r.status = 200)
    IN  [i \in DOMAIN ok |-> ok[i].count]

\* app.post('/api/tokens/increment'): next = tokenCount + 1 is computed when
\* the request arrives and handed to enqueueWrite, which chains a task on
\* writeQueue.  On an idle chain the task starts in the microtask that
\* follows (tokenCount = nextCount, writeFile begins); behind a write in
\* flight it waits; on a rejected chain it is skipped and the handler
\* answers 500.
PostIncrement ==
    /\ RequestsReceived < MaxRequests
    /\ LET next == tokenCount + 1
       IN  IF writeQueue.rejected
           THEN /\ responses' = Append(responses, [status |-> 500, count |-> -1])
                /\ UNCHANGED <<tokenCount, writeQueue>>
           ELSE /\ writeQueue' = [writeQueue EXCEPT
                                     !.tasks = Append(@, [nextCount |-> next])]
                /\ tokenCount' = IF writeQueue.tasks = <<>> THEN next
                                 ELSE tokenCount
                /\ UNCHANGED responses
    /\ UNCHANGED <<tokensFile, bootCount, appVars, cropVars, drawVars,
                   downloadVars>>

\* fs.writeFile of the task at the head of the chain settles.  Written: the
\* task returns tokenCount, its request is answered with it and the next
\* task starts (tokenCount = nextCount).  Failed: the chain is rejected for
\* good, the request and every queued one are answered 500.
WriteFileSettles(written) ==
    /\ writeQueue.tasks # <<>>
    /\ LET rest == Tail(writeQueue.tasks)
       IN  IF written
           THEN /\ tokensFile' = tokenCount
                /\ responses' = Append(responses,
                                       [status |-> 200, count |-> tokenCount])
                /\ writeQueue' = [writeQueue EXCEPT !.tasks = rest]
                /\ tokenCount' = IF rest = <<>> THEN tokenCount
                                 ELSE rest[1].nextCount
           ELSE /\ responses' = responses \o
                       [i \in DOMAIN writeQueue.tasks |->
                           [status |-> 500, count |-> -1]]
                /\ writeQueue' = [tasks |-> <<>>, rejected |-> TRUE]
                /\ UNCHANGED <<tokensFile, tokenCount>>
    /\ UNCHANGED <<bootCount, appVars, cropVars, drawVars, downloadVars>>

\* The server after initTokenCount, with the app untouched.
InitServer ==
    /\ currentImage = Null
    /\ currentTokenData = Null
    /\ currentFaceData = Null
    /\ currentColorScheme = Null
    /\ currentZoomAdjustment = Num(1)
    /\ currentCropOffset = Point(Zero, Zero)
    /\ isDragging = FALSE
    /\ dragStart = Point(0, 0)
    /\ dragStartOffset = Point(Zero, Zero)
    /\ lastCropData = Null
    /\ currentBorderOptions = DefaultBorderOptions
    /\ currentFileName = NoFileName
    /\ screen = "upload"
    /\ errorMessage = NoError
    /\ zoomSlider = 100
    /\ preview = Null
    /\ zoomTimeout = Null
    /\ tokenAdjustments = <<>>
    /\ adjustmentSummary = Null
    /\ pending = {}
    /\ uploads = 0
    /\ moves = 0
    /\ wheels = 0
    /\ gesture = NoGesture
    /\ tokensCreated = <<"0">>
    /\ tokenCountText = <<"0">>
    /\ blobCallbacks = <<>>
    /\ downloaded = <<>>
    /\ clicks = 0
    /\ drawArgs = Null
    /\ surface = Null
    /\ argImage = Null
    /\ argFace = Null
    /\ argOffset = Null
    /\ calls = <<>>
    /\ bootCount \in StoredServerCounts
    /\ tokenCount = bootCount
    /\ tokensFile = bootCount
    /\ writeQueue = IdleQueue
    /\ responses = <<>>

NextServer ==
    \/ PostIncrement
    \/ \E written \in BOOLEAN : WriteFileSettles(written)

SpecServer == InitServer /\ [][NextServer]_vars

(***************************************************************************)
(* The app                                                                 *)
(***************************************************************************)

\* The module-level initialisers of app.js; the page shows the upload area.
Init ==
    /\ currentImage = Null
    /\ currentTokenData = Null
    /\ currentFaceData = Null
    /\ currentColorScheme = Null
    /\ currentZoomAdjustment = Num(1)
    /\ currentCropOffset = Point(Zero, Zero)
    /\ isDragging = FALSE
    /\ dragStart = Point(0, 0)
    /\ dragStartOffset = Point(Zero, Zero)
    /\ lastCropData = Null
    /\ currentBorderOptions = DefaultBorderOptions
    /\ currentFileName = NoFileName
    /\ screen = "upload"
    /\ errorMessage = NoError
    /\ zoomSlider = 100
    /\ preview = Null
    /\ zoomTimeout = Null
    /\ tokenAdjustments = <<>>
    /\ adjustmentSummary = Null
    /\ pending = {}
    /\ uploads = 0
    /\ moves = 0
    /\ wheels = 0
    /\ gesture = NoGesture
    /\ tokensCreated = <<"0">>
    /\ tokenCountText = <<"0">>
    /\ blobCallbacks = <<>>
    /\ downloaded = <<>>
    /\ clicks = 0
    /\ tokenCount = 0
    /\ tokensFile = 0
    /\ writeQueue = IdleQueue
    /\ bootCount = 0
    /\ responses = <<>>
    /\ drawArgs = Null
    /\ surface = Null
    /\ argImage = Null
    /\ argFace = Null
    /\ argOffset = Null
    /\ calls = <<>>

Next ==
    \/ \E file \in Files : HandleFile(file) /\ UNCHANGED gesture
    \/ \E task \in pending : LoadImageSettles(task) /\ UNCHANGED gesture
    \/ \E task \in pending, rendered, renderedFallback \in RenderOutcomes :
           DetectFaceSettles(task, rendered, renderedFallback) /\ UNCHANGED gesture
    \/ \E value \in SliderValues, rendered \in RenderOutcomes :
           HandleZoomChange(value, rendered) /\ UNCHANGED gesture
    \/ ZoomTimerFires /\ UNCHANGED gesture
    \/ \E pos \in Pointers : MouseDown(pos) /\ UNCHANGED gesture
    \/ \E pos \in Pointers, rendered \in RenderOutcomes :
           MouseMove(pos, rendered) /\ UNCHANGED gesture
    \/ MouseUp /\ UNCHANGED gesture
    \/ MouseLeave /\ UNCHANGED gesture
    \/ \E deltaY \in WheelDeltas, rendered \in RenderOutcomes :
           Wheel(deltaY, rendered) /\ UNCHANGED gesture
    \/ \E rendered \in RenderOutcomes :
           ToggleBorderThickness(rendered) /\ UNCHANGED gesture
    \/ \E color \in COLOR_SWATCHES, rendered \in RenderOutcomes :
           SelectBorderColor(color, rendered) /\ UNCHANGED gesture
    \/ \E textureType \in BORDER_TEXTURES, rendered \in RenderOutcomes :
           SelectBorderTexture(textureType, rendered) /\ UNCHANGED gesture
    \/ \E rendered \in RenderOutcomes :
           ResetBorderColor(rendered) /\ UNCHANGED gesture
    \/ \E rendered \in RenderOutcomes :
           ResetBorderTexture(rendered) /\ UNCHANGED gesture
    \/ DownloadToken /\ UNCHANGED gesture
    \/ \E i \in DOMAIN blobCallbacks, blob \in BOOLEAN :
           ToBlobCallback(i, blob) /\ UNCHANGED gesture
    \/ ResetApp /\ UNCHANGED gesture

Spec == Init /\ [][Next]_vars

(***************************************************************************)
(* Bookkeeping of the last two drag gestures.  A gesture is a mousedown    *)
(* that starts a drag, one mousemove that the handler processes and a      *)
(* mouseup, with no other event in between; matched is set by the mouseup  *)
(* that completes a gesture whose displacement is the opposite of the      *)
(* displacement of the gesture just before it, and holds the offset and    *)
(* the zoom stored when that earlier gesture began.                        *)
(***************************************************************************)

GestureDown(pos) ==
    gesture' =
        IF currentImage = Null \/ currentFaceData = Null
        THEN NoGesture
        ELSE [prev |-> IF gesture.cur = Null THEN gesture.prev ELSE Null,
              cur |-> [p0 |-> currentCropOffset, zoom |-> currentZoomAdjustment,
                       start |-> pos, moved |-> Null],
              matched |-> Null]

GestureMove(pos) ==
    gesture' = IF DragMoveHandled /\ gesture.cur # Null /\ gesture.cur.moved = Null
               THEN [prev |-> gesture.prev,
                     cur |-> [gesture.cur EXCEPT !.moved = pos],
                     matched |-> Null]
               ELSE NoGesture

GestureUp ==
    gesture' =
        IF gesture.cur # Null /\ gesture.cur.moved # Null
        THEN LET d == Point(gesture.cur.moved.x - gesture.cur.start.x,
                            gesture.cur.moved.y - gesture.cur.start.y)
             IN  [prev |-> [p0 |-> gesture.cur.p0, zoom |-> gesture.cur.zoom,
                            d |-> d],
                  cur |-> Null,
                  matched |-> IF /\ gesture.prev # Null
                                 /\ gesture.prev.d = Point(-d.x, -d.y)
                              THEN [p |-> gesture.prev.p0,
                                    zoom |-> gesture.prev.zoom, d |-> d]
                              ELSE Null]
        ELSE NoGesture

GestureNone == gesture' = NoGesture

(***************************************************************************)
(* The app with the bookkeeping of drag gestures: uploads of the files     *)
(* that decode, the slider, the mouse, the thickness toggle and the reset. *)
(* The analytics timer, which touches only the adjustment log, stays       *)
(* pending.                                                                *)
(***************************************************************************)

DragFiles == { file \in Files : file.decodes }

\* Slider values that change the zoom of a freshly loaded image.
DragSliderValues == { value \in SliderValues : value # 100 }

NextDrag ==
    \/ \E file \in DragFiles :
           uploads < MaxEditUploads /\ HandleFile(file) /\ GestureNone
    \/ \E task \in pending : LoadImageSettles(task) /\ GestureNone
    \/ \E task \in pending, rendered, renderedFallback \in RenderOutcomes :
           DetectFaceSettles(task, rendered, renderedFallback) /\ GestureNone
    \/ \E value \in DragSliderValues, rendered \in RenderOutcomes :
           HandleZoomChange(value, rendered) /\ GestureNone
    \/ \E pos \in Pointers : MouseDown(pos) /\ GestureDown(pos)
    \/ \E pos \in Pointers, rendered \in RenderOutcomes :
           MouseMove(pos, rendered) /\ GestureMove(pos)
    \/ MouseUp /\ GestureUp
    \/ MouseLeave /\ GestureNone
    \/ \E rendered \in RenderOutcomes :
           ToggleBorderThickness(rendered) /\ GestureNone
    \/ ResetApp /\ GestureNone

SpecDrag == Init /\ [][NextDrag]_vars

(***************************************************************************)
(* The app seen from the zoom controls: uploads of the files that decode,  *)
(* the slider, the wheel, the analytics timer and the reset.               *)
(***************************************************************************)

NextZoom ==
    \/ \E file \in DragFiles :
           uploads < MaxZoomUploads /\ HandleFile(file) /\ UNCHANGED gesture
    \/ \E task \in pending : LoadImageSettles(task) /\ UNCHANGED gesture
    \/ \E task \in pending, rendered, renderedFallback \in RenderOutcomes :
           DetectFaceSettles(task, rendered, renderedFallback) /\ UNCHANGED gesture
    \/ \E value \in SliderValues, rendered \in RenderOutcomes :
           HandleZoomChange(value, rendered) /\ UNCHANGED gesture
    \/ \E deltaY \in WheelDeltas, rendered \in RenderOutcomes :
           Wheel(deltaY, rendered) /\ UNCHANGED gesture
    \/ ZoomTimerFires /\ UNCHANGED gesture
    \/ ResetApp /\ UNCHANGED gesture

SpecZoom == Init /\ [][NextZoom]_vars

(***************************************************************************)
(* The app seen from the loading of images: uploads of every kind of file, *)
(* one after or during the other, with the slider, a drag move, the        *)
(* thickness toggle and the reset changing the session in between.         *)
(***************************************************************************)

NextLoad ==
    \/ \E file \in Files : HandleFile(file) /\ UNCHANGED gesture
    \/ \E task \in pending : LoadImageSettles(task) /\ UNCHANGED gesture
    \/ \E task \in pending, rendered, renderedFallback \in RenderOutcomes :
           DetectFaceSettles(task, rendered, renderedFallback) /\ UNCHANGED gesture
    \/ \E value \in DragSliderValues, rendered \in RenderOutcomes :
           HandleZoomChange(value, rendered) /\ UNCHANGED gesture
    \/ \E pos \in Pointers : MouseDown(pos) /\ UNCHANGED gesture
    \/ \E pos \in Pointers, rendered \in RenderOutcomes :
           moves < MaxLoadMoves /\ MouseMove(pos, rendered) /\ UNCHANGED gesture
    \/ \E rendered \in RenderOutcomes :
           ToggleBorderThickness(rendered) /\ UNCHANGED gesture
    \/ ResetApp /\ UNCHANGED gesture

SpecLoad == Init /\ [][NextLoad]_vars

(***************************************************************************)
(* The app seen from the border controls: uploads of the files that        *)
(* decode, the colour and texture swatches and their resets, the thickness *)
(* toggle and the reset of the app.                                        *)
(***************************************************************************)

NextStyle ==
    \/ \E file \in DragFiles :
           uploads < MaxEditUploads /\ HandleFile(file) /\ UNCHANGED gesture
    \/ \E task \in pending : LoadImageSettles(task) /\ UNCHANGED gesture
    \/ \E task \in pending, rendered, renderedFallback \in RenderOutcomes :
           DetectFaceSettles(task, rendered, renderedFallback) /\ UNCHANGED gesture
    \/ \E color \in COLOR_SWATCHES, rendered \in RenderOutcomes :
           SelectBorderColor(color, rendered) /\ UNCHANGED gesture
    \/ \E textureType \in BORDER_TEXTURES, rendered \in RenderOutcomes :
           SelectBorderTexture(textureType, rendered) /\ UNCHANGED gesture
    \/ \E rendered \in RenderOutcomes :
           ResetBorderColor(rendered) /\ UNCHANGED gesture
    \/ \E rendered \in RenderOutcomes :
           ResetBorderTexture(rendered) /\ UNCHANGED gesture
    \/ \E rendered \in RenderOutcomes :
           ToggleBorderThickness(rendered) /\ UNCHANGED gesture
    \/ ResetApp /\ UNCHANGED gesture

SpecStyle == Init /\ [][NextStyle]_vars

(***************************************************************************)
(* The app seen from the download button: an upload of a file that         *)
(* decodes, the slider, a drag, the thickness toggle, the reset, the       *)
(* clicks on the download button and the toBlob callbacks.  The counter    *)
(* found in localStorage when the page opens is that of earlier sessions.  *)
(***************************************************************************)

\* The counts init() finds in localStorage and writes back.
StoredCounts == { <<"0">>, <<"9">> }

\* The module-level initialisers of app.js and the counter init() displays.
InitDownload ==
    /\ currentImage = Null
    /\ currentTokenData = Null
    /\ currentFaceData = Null
    /\ currentColorScheme = Null
    /\ currentZoomAdjustment = Num(1)
    /\ currentCropOffset = Point(Zero, Zero)
    /\ isDragging = FALSE
    /\ dragStart = Point(0, 0)
    /\ dragStartOffset = Point(Zero, Zero)
    /\ lastCropData = Null
    /\ currentBorderOptions = DefaultBorderOptions
    /\ currentFileName = NoFileName
    /\ screen = "upload"
    /\ errorMessage = NoError
    /\ zoomSlider = 100
    /\ preview = Null
    /\ zoomTimeout = Null
    /\ tokenAdjustments = <<>>
    /\ adjustmentSummary = Null
    /\ pending = {}
    /\ uploads = 0
    /\ moves = 0
    /\ wheels = 0
    /\ gesture = NoGesture
    /\ tokensCreated \in StoredCounts
    /\ tokenCountText = tokensCreated
    /\ blobCallbacks = <<>>
    /\ downloaded = <<>>
    /\ clicks = 0
    /\ tokenCount = 0
    /\ tokensFile = 0
    /\ writeQueue = IdleQueue
    /\ bootCount = 0
    /\ responses = <<>>
    /\ drawArgs = Null
    /\ surface = Null
    /\ argImage = Null
    /\ argFace = Null
    /\ argOffset = Null
    /\ calls = <<>>

\* The wheel is turned down.
WheelDownDeltas == { deltaY \in WheelDeltas : deltaY > 0 }

\* The slider is moved to its upper end.
DownloadSliderValues == { value \in SliderValues : value > 100 }

NextDownload ==
    \/ \E file \in DragFiles :
           uploads < MaxEditUploads /\ HandleFile(file) /\ UNCHANGED gesture
    \/ \E task \in pending : LoadImageSettles(task) /\ UNCHANGED gesture
    \/ \E task \in pending, rendered, renderedFallback \in RenderOutcomes :
           DetectFaceSettles(task, rendered, renderedFallback) /\ UNCHANGED gesture
    \/ \E value \in DownloadSliderValues, rendered \in RenderOutcomes :
           HandleZoomChange(value, rendered) /\ UNCHANGED gesture
    \/ \E pos \in Pointers : MouseDown(pos) /\ UNCHANGED gesture
    \/ \E pos \in Pointers, rendered \in RenderOutcomes :
           moves < MaxLoadMoves /\ MouseMove(pos, rendered) /\ UNCHANGED gesture
    \/ MouseUp /\ UNCHANGED gesture
    \/ \E rendered \in RenderOutcomes :
           ToggleBorderThickness(rendered) /\ UNCHANGED gesture
    \/ DownloadToken /\ UNCHANGED gesture
    \/ \E i \in DOMAIN blobCallbacks, blob \in BOOLEAN :
           ToBlobCallback(i, blob) /\ UNCHANGED gesture
    \/ ResetApp /\ UNCHANGED gesture

SpecDownload == InitDownload /\ [][NextDownload]_vars

(***************************************************************************)
(* The app when compositing can fail: one upload, the slider, the wheel,   *)
(* a drag move, the thickness toggle and a texture swatch, each with a     *)
(* createToken that returns or throws.                                     *)
(***************************************************************************)

\* Whether createToken returns (TRUE) or throws (FALSE).
CompositingOutcomes == BOOLEAN

NextRender ==
    \/ \E file \in DragFiles :
           uploads < MaxEditUploads /\ HandleFile(file) /\ UNCHANGED gesture
    \/ \E task \in pending : LoadImageSettles(task) /\ UNCHANGED gesture
    \/ \E task \in pending, rendered, renderedFallback \in CompositingOutcomes :
           DetectFaceSettles(task, rendered, renderedFallback) /\ UNCHANGED gesture
    \/ \E value \in DownloadSliderValues, rendered \in CompositingOutcomes :
           HandleZoomChange(value, rendered) /\ UNCHANGED gesture
    \/ \E deltaY \in WheelDownDeltas, rendered \in CompositingOutcomes :
           Wheel(deltaY, rendered) /\ UNCHANGED gesture
    \/ \E pos \in Pointers : MouseDown(pos) /\ UNCHANGED gesture
    \/ \E pos \in Pointers, rendered \in CompositingOutcomes :
           moves < MaxLoadMoves /\ MouseMove(pos, rendered) /\ UNCHANGED gesture
    \/ \E rendered \in CompositingOutcomes :
           ToggleBorderThickness(rendered) /\ UNCHANGED gesture
    \/ \E rendered \in CompositingOutcomes :
           SelectBorderTexture("glow", rendered) /\ UNCHANGED gesture

SpecRender == Init /\ [][NextRender]_vars

(***************************************************************************)
(* The app seen from the reset button: an upload of a file that decodes,   *)
(* the reset, and the slider, the wheel, the mouse and the download button *)
(* used before and after it.                                               *)
(***************************************************************************)

NextReset ==
    \/ \E file \in DragFiles :
           uploads < MaxEditUploads /\ HandleFile(file) /\ UNCHANGED gesture
    \/ \E task \in pending : LoadImageSettles(task) /\ UNCHANGED gesture
    \/ \E task \in pending, rendered, renderedFallback \in RenderOutcomes :
           DetectFaceSettles(task, rendered, renderedFallback) /\ UNCHANGED gesture
    \/ \E value \in DownloadSliderValues, rendered \in RenderOutcomes :
           HandleZoomChange(value, rendered) /\ UNCHANGED gesture
    \/ \E deltaY \in WheelDownDeltas, rendered \in RenderOutcomes :
           wheels < MaxLoadMoves /\ Wheel(deltaY, rendered) /\ UNCHANGED gesture
    \/ \E pos \in Pointers : MouseDown(pos) /\ UNCHANGED gesture
    \/ \E pos \in Pointers, rendered \in RenderOutcomes :
           moves < MaxLoadMoves /\ MouseMove(pos, rendered) /\ UNCHANGED gesture
    \/ DownloadToken /\ UNCHANGED gesture
    \/ \E i \in DOMAIN blobCallbacks, blob \in BOOLEAN :
           ToBlobCallback(i, blob) /\ UNCHANGED gesture
    \/ ResetApp /\ UNCHANGED gesture

SpecReset == Init /\ [][NextReset]_vars

(***************************************************************************)
(* The app seen from the adjustment log: the page opens with the log that  *)
(* earlier sessions left in localStorage, a file that decodes is uploaded, *)
(* the wheel is turned and the store timer fires.                          *)
(***************************************************************************)

\* A record stored by an earlier session, the i-th of the log.
StoredRecord(i) ==
    [zoomValue |-> 50 + (i % 101),
     zoomAdjustment |-> Rat(50 + (i % 101), 100),
     faceData |-> [width |-> Num(200), height |-> Num(250),
                   relativeWidth |-> Num(25), relativeHeight |-> Num(25)],
     imageSize |-> [width |-> 800, height |-> 1000]]

\* The lengths of the log found in localStorage: empty, short of the limit
\* by two and by one, at the limit.
StoredLogLengths ==
    { 0, maxStoredAdjustments - 2, maxStoredAdjustments - 1, maxStoredAdjustments }

StoredLogs == { [i \in 1..n |-> StoredRecord(i)] : n \in StoredLogLengths }

InitLog ==
    /\ currentImage = Null
    /\ currentTokenData = Null
    /\ currentFaceData = Null
    /\ currentColorScheme = Null
    /\ currentZoomAdjustment = Num(1)
    /\ currentCropOffset = Point(Zero, Zero)
    /\ isDragging = FALSE
    /\ dragStart = Point(0, 0)
    /\ dragStartOffset = Point(Zero, Zero)
    /\ lastCropData = Null
    /\ currentBorderOptions = DefaultBorderOptions
    /\ currentFileName = NoFileName
    /\ screen = "upload"
    /\ errorMessage = NoError
    /\ zoomSlider = 100
    /\ preview = Null
    /\ zoomTimeout = Null
    /\ tokenAdjustments \in StoredLogs
    /\ adjustmentSummary = IF tokenAdjustments = <<>> THEN Null
                           ELSE AdjustmentSummary(tokenAdjustments)
    /\ pending = {}
    /\ uploads = 0
    /\ moves = 0
    /\ wheels = 0
    /\ gesture = NoGesture
    /\ tokensCreated = <<"0">>
    /\ tokenCountText = <<"0">>
    /\ blobCallbacks = <<>>
    /\ downloaded = <<>>
    /\ clicks = 0
    /\ tokenCount = 0
    /\ tokensFile = 0
    /\ writeQueue = IdleQueue
    /\ bootCount = 0
    /\ responses = <<>>
    /\ drawArgs = Null
    /\ surface = Null
    /\ argImage = Null
    /\ argFace = Null
    /\ argOffset = Null
    /\ calls = <<>>

NextLog ==
    \/ \E file \in DragFiles :
           uploads < MaxEditUploads /\ HandleFile(file) /\ UNCHANGED gesture
    \/ \E task \in pending : LoadImageSettles(task) /\ UNCHANGED gesture
    \/ \E task \in pending, rendered, renderedFallback \in RenderOutcomes :
           DetectFaceSettles(task, rendered, renderedFallback) /\ UNCHANGED gesture
    \/ \E deltaY \in WheelDeltas, rendered \in RenderOutcomes :
           Wheel(deltaY, rendered) /\ UNCHANGED gesture
    \/ ZoomTimerFires /\ UNCHANGED gesture

SpecLog == InitLog /\ [][NextLog]_vars

(***************************************************************************)
(* The app seen from the name of the download: uploads of image files with *)
(* names of several kinds, one after the other, and the download button.   *)
(***************************************************************************)

\* The image and the detection of the files uploaded here.
NamedFile(name) ==
    [name |-> name, isImage |-> TRUE, decodes |-> TRUE, image |-> ImgSmall,
     face |-> Null]

\* File names: one extension, several dots and a space, no extension, a
\* leading dot only, longer than 50 characters, nothing but a character to
\* replace, and the words null and undefined.
UploadNames ==
    { <<"h", "e", "r", "o", ".", "p", "n", "g">>,
      <<"m", "y", " ", "m", "a", "p", ".", "v", "2", ".", "j", "p", "g">>,
      <<"R", "E", "A", "D", "M", "E">>,
      <<".", "p", "n", "g">>,
      <<"p", "o", "r", "t", "r", "a", "i", "t", "_", "o", "f", "_", "t", "h", "e", "_", "d", "w", "a", "r", "v", "e", "n", "_", "k", "i", "n", "g", "_", "a", "n", "d", "_", "h", "i", "s", "_", "c", "o", "u", "r", "t", "_", "a", "t", "_", "t", "h", "e", "_", "g", "a", "t", "e", "s", "_", "v", "2", ".", "w", "e", "b", "p">>,
      <<"#", ".", "g", "i", "f">>,
      <<"n", "u", "l", "l", ".", "p", "n", "g">>,
      <<"u", "n", "d", "e", "f", "i", "n", "e", "d", ".", "j", "p", "g">> }

NamedFiles == { NamedFile(name) : name \in UploadNames }

NextName ==
    \/ \E file \in NamedFiles : HandleFile(file) /\ UNCHANGED gesture
    \/ \E task \in pending : LoadImageSettles(task) /\ UNCHANGED gesture
    \/ \E task \in pending, rendered, renderedFallback \in RenderOutcomes :
           DetectFaceSettles(task, rendered, renderedFallback) /\ UNCHANGED gesture
    \/ DownloadToken /\ UNCHANGED gesture
    \/ \E i \in DOMAIN blobCallbacks, blob \in BOOLEAN :
           ToBlobCallback(i, blob) /\ UNCHANGED gesture

SpecName == Init /\ [][NextName]_vars

(***************************************************************************)
(* The app seen from a drag across the loading of a new image: uploads of  *)
(* the files that decode, one after or during the other, and the mouse.    *)
(* Here the bookkeeping keeps the mousedown that started a drag until the  *)
(* processing of an image completes.                                       *)
(***************************************************************************)

NextSwap ==
    \/ \E file \in DragFiles : HandleFile(file) /\ UNCHANGED gesture
    \/ \E task \in pending : LoadImageSettles(task) /\ UNCHANGED gesture
    \/ \E task \in pending, rendered, renderedFallback \in RenderOutcomes :
           DetectFaceSettles(task, rendered, renderedFallback) /\ GestureNone
    \/ \E pos \in Pointers : MouseDown(pos) /\ GestureDown(pos)
    \/ \E pos \in Pointers, rendered \in RenderOutcomes :
           MouseMove(pos, rendered) /\ UNCHANGED gesture
    \/ MouseUp /\ UNCHANGED gesture

SpecSwap == Init /\ [][NextSwap]_vars

(***************************************************************************)
(* Properties of calculateCropArea (checked under SpecCrop)                *)
(***************************************************************************)

Calls == { calls[i] : i \in DOMAIN calls }

RegionInside(image, r) ==
    /\ RLe(Zero, r.x)
    /\ RLe(Zero, r.y)
    /\ RLe(RAdd(r.x, r.width), Num(image.width))
    /\ RLe(RAdd(r.y, r.height), Num(image.height))

Region(rx, ry, rw, rh) == [x |-> rx, y |-> ry, width |-> rw, height |-> rh]

RegionCentre(r) ==
    Point(RAdd(r.x, RDiv(r.width, Two)), RAdd(r.y, RDiv(r.height, Two)))

\* The crop side of section 4.1 of the specification, before zoom.
StatedSide(face) ==
    IF face.eyeDistance # Null /\ face.noseTip # Null
    THEN RMax(RMul(face.eyeDistance, Rat(32, 10)), RMul(face.eyeDistance, Rat(46, 10)))
    ELSE RMax(RMul(face.width, Rat(34, 10)), RMul(face.height, Rat(48, 10)))

\* None of the four boundary tests of the call changed x or y.
Unclamped(c) ==
    LET z == ApplyZoomAndOffset(BaseCrop(argFace), c.zoom, argOffset)
    IN  /\ c.result.x = RSub(z.centerX, RDiv(z.cropWidth, Two))
        /\ c.result.y = RSub(z.centerY, RDiv(z.cropHeight, Two))

BoxScenario ==
    /\ argImage = ImgPortrait
    /\ argFace = BoxFace(400, 300, 200, 250)
    /\ argOffset = Point(Zero, Zero)

LandmarkScenario ==
    /\ argImage = ImgPortrait
    /\ argFace.eyeDistance = Num(50)
    /\ argFace.noseTip = Point(Num(500), Num(520))
    /\ argOffset = Point(Zero, Zero)

\* C1: every region calculateCropArea returns lies inside the image.
C1_CropInsideImage ==
    \A c \in Calls : RegionInside(argImage, c.result)

\* C2: in the box scenario (1000x1000, box {400,300,200,250}, zoom 1.0, zero
\* pan) the result is the whole image {0, 0, 1000, 1000}.
C2_BoxScenarioWholeImage ==
    \A c \in Calls :
        (BoxScenario /\ c.zoom = Num(1)) =>
            c.result = Region(Zero, Zero, Num(1000), Num(1000))

\* C3: when side / zoom exceeds neither image dimension the region is a
\* square of side side / zoom, whatever the pan and the boundary clamp.
C3_SquareWhenSideFits ==
    \A c \in Calls :
        LET side == RDiv(StatedSide(argFace), c.zoom)
        IN  (RLe(side, Num(argImage.width)) /\ RLe(side, Num(argImage.height))) =>
                /\ c.result.width = side
                /\ c.result.height = side

C3_Witness ==
    \E c \in Calls :
        LET side == RDiv(StatedSide(argFace), c.zoom)
        IN  /\ RLe(side, Num(argImage.width))
            /\ RLe(side, Num(argImage.height))
            /\ argOffset # Point(Zero, Zero)
            /\ ~Unclamped(c)
            /\ c.zoom # Num(1)

\* C4: landmark path, zoom 1.0, zero pan, no clamping: the nose tip lies 42%
\* of the crop height below the top edge of the crop.
C4_NoseAt42Percent ==
    \A c \in Calls :
        (/\ argFace.eyeDistance # Null /\ argFace.noseTip # Null
         /\ c.zoom = Num(1)
         /\ argOffset = Point(Zero, Zero)
         /\ Unclamped(c)) =>
            RSub(argFace.noseTip.y, c.result.y) = RMul(Rat(42, 100), c.result.height)

\* C5 as stated: the landmark scenario at zoom 1.0 returns
\* {x: 385, y: 385.6, width: 230, height: 230}.
C5_LandmarkScenarioStated ==
    \A c \in Calls :
        (LandmarkScenario /\ c.zoom = Num(1)) =>
            c.result = Region(Num(385), Rat(3856, 10), Num(230), Num(230))

\* C5 as amended: the landmark scenario at zoom 1.0 has side 230 and
\* centerY 501.6 and returns {x: 385, y: 386.6, width: 230, height: 230},
\* no boundary test changing x or y.
C5_LandmarkScenario ==
    \A c \in Calls :
        (LandmarkScenario /\ c.zoom = Num(1)) =>
            /\ LandmarkCrop(argFace).cropWidth = Num(230)
            /\ LandmarkCrop(argFace).centerY = Rat(5016, 10)
            /\ c.result = Region(Num(385), Rat(3866, 10), Num(230), Num(230))
            /\ Unclamped(c)

C5_Witness ==
    \E c \in Calls : LandmarkScenario /\ c.zoom = Num(1)

\* C6: box path, zoom 1.0, zero pan, no clamping: the side is
\* max(3.4 * width, 4.8 * height), the crop is centred horizontally on the
\* box centre and the box top lies 40% of the side below the crop top.
C6_BoxPathGeometry ==
    \A c \in Calls :
        (/\ (argFace.eyeDistance = Null \/ argFace.noseTip = Null)
         /\ c.zoom = Num(1)
         /\ argOffset = Point(Zero, Zero)
         /\ Unclamped(c)) =>
            LET side == RMax(RMul(Rat(34, 10), argFace.width),
                             RMul(Rat(48, 10), argFace.height))
            IN  /\ c.result.width = side
                /\ c.result.height = side
                /\ RegionCentre(c.result).x = RAdd(argFace.x, RDiv(argFace.width, Two))
                /\ RSub(argFace.y, c.result.y) = RMul(Rat(40, 100), side)

C6_Witness ==
    /\ \E c \in Calls :
        /\ argFace = BoxFace(400, 400, 200, 60)
        /\ c.zoom = Num(1)
        /\ argOffset = Point(Zero, Zero)
        /\ Unclamped(c)
        /\ c.result.width = Num(680)

C8_ZoomOutDoubling ==
    \A c \in Calls :
        (LandmarkScenario /\ c.zoom = Rat(1, 2)) =>
            /\ c.result.width = Num(460)
            /\ c.result.height = Num(460)
            /\ \A c1 \in Calls :
                   c1.zoom = Num(1) => RegionCentre(c.result) = RegionCentre(c1.result)

C8_Witness ==
    /\ LandmarkScenario
    /\ \E c, c1 \in Calls : c.zoom = Rat(1, 2) /\ c1.zoom = Num(1)

(***************************************************************************)
(* Properties of the drag handlers (checked under SpecDrag)                *)
(***************************************************************************)

StatedDragOffset(pos) ==
    LET innerPhotoSize == tokenSize - (2 * currentBorderOptions.borderWidth)
        scale == RDiv(lastCropData.width, Num(innerPhotoSize))
    IN  Point(RSub(dragStartOffset.x, RMul(Num(pos.x - dragStart.x), scale)),
              RSub(dragStartOffset.y, RMul(Num(pos.y - dragStart.y), scale)))

\* C10: a drag move that the handler processes sets the stored pan offset to
\* dragStartOffset - delta * scale with scale = lastCropData.width /
\* (512 - 2 * borderWidth), borderWidth being the border width currently
\* selected (496 for thin, 480 for thick).
C10_DragScaleForSelectedBorder ==
    [][\A pos \in Pointers, rendered \in RenderOutcomes :
          (DragMoveHandled /\ MouseMove(pos, rendered))
              => currentCropOffset' = StatedDragOffset(pos)]_vars

(***************************************************************************)
(* Properties of the zoom controls (checked under SpecZoom)                *)
(***************************************************************************)

\* An image and its face data are loaded: the guard of the wheel listener.
ImageLoaded == currentImage # Null /\ currentFaceData # Null

ZoomMin == Rat(50, 100)
ZoomMax == Rat(150, 100)

ClampZoom(q) == RMax(ZoomMin, RMin(ZoomMax, q))

ZoomInRange ==
    RLe(ZoomMin, currentZoomAdjustment) /\ RLe(currentZoomAdjustment, ZoomMax)

StatedWheelZoom(deltaY) ==
    ClampZoom(RAdd(currentZoomAdjustment,
                   IF deltaY > 0 THEN Rat(-5, 100) ELSE Rat(5, 100)))

\* C12: while an image and its face data are loaded, a wheel step changes the
\* zoom by exactly 5 percentage points (down when deltaY > 0, up otherwise),
\* saturating at 50% and 150%, and sets both the slider and the stored zoom
\* factor to the new value; with no image loaded a wheel step changes
\* nothing.
C12_WheelStep ==
    [][\A deltaY \in WheelDeltas, rendered \in RenderOutcomes :
          Wheel(deltaY, rendered) =>
              IF ImageLoaded
              THEN /\ currentZoomAdjustment' = StatedWheelZoom(deltaY)
                   /\ Num(zoomSlider') = RMul(Num(100), currentZoomAdjustment')
              ELSE UNCHANGED <<currentImage, currentTokenData, currentFaceData,
                               currentColorScheme, currentZoomAdjustment,
                               currentCropOffset, isDragging, dragStart,
                               dragStartOffset, lastCropData,
                               currentBorderOptions, currentFileName, screen,
                               errorMessage, zoomSlider, preview, zoomTimeout,
                               tokenAdjustments, adjustmentSummary>>]_vars

(***************************************************************************)
(* Properties of the loading of images (checked under SpecLoad)            *)
(***************************************************************************)

\* C13: whenever a new image finishes loading, through the detection path or
\* the fallback path and whatever the session state was before, the zoom
\* factor is 1.0, the pan offset is {0,0}, the slider shows 100 and the
\* border options are {gradient, no custom colour, 8} at the moment the first
\* token of that image is composed: the token is composed from that image at
\* zoom 1.0 and pan {0,0}.
C13_LoadResetsSession ==
    [][\A task \in pending, rendered, renderedFallback \in RenderOutcomes :
          (/\ DetectFaceSettles(task, rendered, renderedFallback)
           /\ screen' = "preview")
              => /\ currentZoomAdjustment' = Num(1)
                 /\ currentCropOffset' = Point(Zero, Zero)
                 /\ zoomSlider' = 100
                 /\ currentBorderOptions' =
                        [texture |-> "gradient", customColor |-> Null,
                         borderWidth |-> 8]
                 /\ currentTokenData'.image = task.file.image
                 /\ currentTokenData'.zoomAdjustment = Num(1)
                 /\ currentTokenData'.cropOffset = Point(Zero, Zero)
                 /\ preview' = currentTokenData']_vars

\* A second image has finished loading, through the fallback path, in a
\* session in which the zoom had been changed and a drag had been started
\* from a pan offset other than {0,0}.
C13_Witness ==
    /\ uploads = 2
    /\ pending = {}
    /\ screen = "preview"
    /\ currentImage = ImgSmall
    /\ currentFaceData = FallbackFace(ImgSmall)
    /\ zoomTimeout # Null
    /\ dragStartOffset # Point(Zero, Zero)
    /\ currentTokenData.image = ImgSmall
    /\ currentZoomAdjustment = Num(1)
    /\ currentCropOffset = Point(Zero, Zero)
    /\ zoomSlider = 100
    /\ currentBorderOptions = DefaultBorderOptions

\* C14: when face detection fails for an uploaded image (and colour
\* extraction and compositing succeed) the app substitutes the face geometry
\* {x: 0.25*W, y: 0.25*H, width: 0.5*W, height: 0.5*H}, ends in the preview
\* state with a token composed from it, and shows no error message: the step
\* sets none, and after a single upload none is shown.
C14_DetectionFailureFallsBack ==
    [][\A task \in pending, rendered, renderedFallback \in RenderOutcomes :
          (/\ DetectFaceSettles(task, rendered, renderedFallback)
           /\ task.file.face = Null)
              => LET W == Num(task.file.image.width)
                     H == Num(task.file.image.height)
                 IN  /\ currentFaceData'.x = RMul(Rat(25, 100), W)
                     /\ currentFaceData'.y = RMul(Rat(25, 100), H)
                     /\ currentFaceData'.width = RMul(Rat(5, 10), W)
                     /\ currentFaceData'.height = RMul(Rat(5, 10), H)
                     /\ screen' = "preview"
                     /\ currentTokenData'.image = task.file.image
                     /\ currentTokenData'.faceData = currentFaceData'
                     /\ preview' = currentTokenData'
                     /\ errorMessage' = errorMessage
                     /\ (uploads = 1 => errorMessage' = NoError)]_vars

\* The only upload of the session, an image without a detectable face, has
\* been processed: the preview shows a token of the substituted geometry and
\* no error message.
C14_Witness ==
    /\ uploads = 1
    /\ pending = {}
    /\ screen = "preview"
    /\ errorMessage = NoError
    /\ currentImage = ImgSmall
    /\ currentFaceData.x = Num(100)
    /\ currentFaceData.y = Num(75)
    /\ currentFaceData.width = Num(200)
    /\ currentFaceData.height = Num(150)
    /\ currentTokenData.faceData = currentFaceData
    /\ preview = currentTokenData

(***************************************************************************)
(* The crop of the fallback geometry (checked under SpecCrop)              *)
(***************************************************************************)

\* C15: when face detection fails, the crop computed from the fallback
\* geometry at default zoom and zero pan is centred on the centre of the
\* image: crop.x + crop.width / 2 = image.width / 2, for every image size.
C15_FallbackCropCentred ==
    \A c \in Calls :
        (/\ argFace.x = RMul(Rat(25, 100), Num(argImage.width))
         /\ argFace.y = RMul(Rat(25, 100), Num(argImage.height))
         /\ argFace.width = RMul(Rat(5, 10), Num(argImage.width))
         /\ argFace.height = RMul(Rat(5, 10), Num(argImage.height))
         /\ argFace.eyeDistance = Null
         /\ c.zoom = Num(1)
         /\ argOffset = Point(Zero, Zero))
            => RAdd(c.result.x, RDiv(c.result.width, Two))
                   = RDiv(Num(argImage.width), Two)

(***************************************************************************)
(* Properties of the border textures (checked under SpecBorder)            *)
(***************************************************************************)

Drawn == surface # Null /\ surface.drawn

InRing(p) ==
    /\ 2 * p.dist <= drawArgs.size
    /\ 2 * p.dist > drawArgs.size - (2 * drawArgs.borderWidth)

InsideRing(p) == 2 * p.dist < drawArgs.size - (2 * drawArgs.borderWidth)

\* C16: for each of the eight textures, after the texture's draw function
\* has run on an empty size x size surface, every pixel at radius r with
\* size/2 - borderWidth < r <= size/2 is fully opaque and every pixel with
\* r < size/2 - borderWidth is fully transparent.
C16_BorderRingGeometry ==
    Drawn =>
        \A p \in DOMAIN surface.pixels :
            /\ InRing(p) => surface.pixels[p].alpha = One
            /\ InsideRing(p) => surface.pixels[p].alpha = Zero

(***************************************************************************)
(* Properties of the composed token (checked under SpecStyle)              *)
(***************************************************************************)

\* The colour scheme the border is to be drawn with: the custom colour, when
\* one is selected, takes the place of primary and accent.
EffectiveScheme(scheme, options) ==
    IF options.customColor = Null THEN scheme
    ELSE [scheme EXCEPT !.primary = options.customColor,
                        !.accent = options.customColor]

\* The sampled pixels of the ring of the given width.
RingPixels(width) ==
    { p \in TokenPixels :
          2 * p.dist <= tokenSize /\ 2 * p.dist > tokenSize - (2 * width) }

\* The border of a texture, a width and a colour scheme on an empty token.
StatedBorder(textureType, width, scheme) ==
    DrawTexture(textureType, EmptyCanvas, tokenSize, width, scheme)

\* C17: when a custom border colour is selected the token is composed with
\* the effective colour scheme (primary and accent are the custom colour,
\* secondary and border those of the auto-extracted scheme), so that with the
\* solid texture the ring has exactly the custom colour; when no custom
\* colour is set the auto scheme is used unchanged.  The ring is compared on
\* its outer 8 pixels, which belong to it for either thickness.
C17_ColourSubstitution ==
    currentTokenData # Null =>
        LET options == currentBorderOptions
            effective == EffectiveScheme(currentTokenData.colorScheme, options)
            drawn == canvas(currentTokenData)
        IN  /\ \E textureType \in BORDER_TEXTURES, width \in {8, 16} :
                   \A p \in RingPixels(8) :
                       drawn[p] = StatedBorder(textureType, width, effective)[p]
            /\ (options.customColor # Null /\ options.texture = "solid") =>
                   \A p \in RingPixels(8) :
                       /\ drawn[p].alpha = One
                       /\ drawn[p].paint = colorToCSS(options.customColor)

\* C18: the token composed by createToken honours the selected border
\* options: its ring is borderWidth pixels thick (8 or 16) and drawn with the
\* selected texture, and the photo fills the inner square of side
\* 512 - 2 * borderWidth, clipped to the circle of that diameter.
C18_TokenHonoursBorderOptions ==
    currentTokenData # Null =>
        LET options == currentBorderOptions
            token == currentTokenData
            width == options.borderWidth
            inner == tokenSize - (2 * width)
            drawn == canvas(token)
            photo == DrawImageClipped(EmptyCanvas, Rat(inner, 2), token.image,
                         calculateCropArea(token.image, token.faceData, inner,
                                           token.zoomAdjustment,
                                           token.cropOffset),
                         width, width, inner)
        IN  /\ \E scheme \in { token.colorScheme,
                                EffectiveScheme(token.colorScheme, options) } :
                   \A p \in RingPixels(width) :
                       drawn[p] = StatedBorder(options.texture, width, scheme)[p]
            /\ \A p \in TokenPixels :
                   photo[p].alpha = One => drawn[p] = photo[p]

(***************************************************************************)
(* Properties of the tokens-created counter (checked under SpecDownload)   *)
(***************************************************************************)

\* A download completes: a toBlob callback runs.
DownloadCompletes ==
    \E i \in DOMAIN blobCallbacks, blob \in BOOLEAN : ToBlobCallback(i, blob)

BorderOptionsWellFormed ==
    /\ currentBorderOptions.borderWidth \in {8, 16}
    /\ currentBorderOptions.texture \in
           { "solid", "gradient", "metallic", "leather", "wood", "stone",
             "crystal", "glow" }

\* The fields of the border options a step leaves alone.
KeepsTexture == currentBorderOptions'.texture = currentBorderOptions.texture
KeepsColor ==
    currentBorderOptions'.customColor = currentBorderOptions.customColor
KeepsWidth ==
    currentBorderOptions'.borderWidth = currentBorderOptions.borderWidth

\* A step of a border control shows the same screen and starts no upload
\* (a border control changes neither).
NoUploadNoReset == uploads' = uploads /\ screen' = screen

\* C20: after any sequence of border actions (colour select, colour reset,
\* texture select, texture reset, thickness toggle, image load, app reset)
\* the border width is 8 or 16 and the texture is one of the eight
\* identifiers; each thickness toggle switches between 8 and 16, and each
\* border action changes only its own field of the border options.
C20_BorderOptions ==
    /\ []BorderOptionsWellFormed
    /\ [][\A rendered \in RenderOutcomes :
             /\ (NoUploadNoReset /\ ToggleBorderThickness(rendered)) =>
                    /\ currentBorderOptions'.borderWidth =
                           24 - currentBorderOptions.borderWidth
                    /\ KeepsTexture /\ KeepsColor
             /\ \A color \in COLOR_SWATCHES :
                    (NoUploadNoReset /\ SelectBorderColor(color, rendered)) =>
                        /\ currentBorderOptions'.customColor = color
                        /\ KeepsTexture /\ KeepsWidth
             /\ (NoUploadNoReset /\ ResetBorderColor(rendered)) =>
                    /\ currentBorderOptions'.customColor = Null
                    /\ KeepsTexture /\ KeepsWidth
             /\ \A textureType \in BORDER_TEXTURES :
                    (NoUploadNoReset /\ SelectBorderTexture(textureType, rendered)) =>
                        /\ currentBorderOptions'.texture = textureType
                        /\ KeepsColor /\ KeepsWidth
             /\ (NoUploadNoReset /\ ResetBorderTexture(rendered)) =>
                    /\ currentBorderOptions'.texture = "gradient"
                    /\ KeepsColor /\ KeepsWidth
             /\ \A task \in pending, renderedFallback \in RenderOutcomes :
                    (/\ DetectFaceSettles(task, rendered, renderedFallback)
                     /\ screen' = "preview") =>
                        currentBorderOptions' =
                            [texture |-> "gradient", customColor |-> Null,
                             borderWidth |-> 8]
             /\ (screen' = "upload" /\ pending' = pending /\ ResetApp) =>
                    currentBorderOptions' =
                        [texture |-> "gradient", customColor |-> Null,
                         borderWidth |-> 8]]_vars

\* A texture and a colour have been selected and the border toggled to thick
\* on a composed token.
C20_Witness ==
    /\ currentTokenData # Null
    /\ currentBorderOptions.texture = "crystal"
    /\ currentBorderOptions.customColor # Null
    /\ currentBorderOptions.borderWidth = 16

(***************************************************************************)
(* calculateCropArea as a function (checked under SpecCrop)                *)
(***************************************************************************)

OutsideDrag ==
    <<currentImage, currentTokenData, currentFaceData, currentColorScheme,
      currentZoomAdjustment, currentCropOffset, lastCropData,
      currentBorderOptions, currentFileName, screen, errorMessage, zoomSlider,
      preview, zoomTimeout, tokenAdjustments, adjustmentSummary, pending,
      downloadVars>>

\* C22: the stored pan offset and the zoom factor are left unchanged by
\* mousedown, by mouseup, by mouseleave and by any mousemove received while
\* isDragging is false; mouseup and mouseleave change only isDragging (to
\* false), and mousedown only sets isDragging and records the pointer
\* position and the current pan offset as the drag origin.
C22_MouseFrame ==
    [][/\ \A pos \in Pointers :
              MouseDown(pos) =>
                  /\ UNCHANGED OutsideDrag
                  /\ isDragging' # isDragging => isDragging'
                  /\ <<dragStart, dragStartOffset>>' # <<dragStart, dragStartOffset>>
                         => /\ isDragging'
                            /\ dragStart' = pos
                            /\ dragStartOffset' = currentCropOffset
                  /\ (currentImage # Null /\ currentFaceData # Null)
                         => /\ isDragging'
                            /\ dragStart' = pos
                            /\ dragStartOffset' = currentCropOffset
       /\ MouseUp =>
              /\ ~isDragging'
              /\ UNCHANGED <<OutsideDrag, dragStart, dragStartOffset>>
       /\ MouseLeave =>
              /\ ~isDragging'
              /\ UNCHANGED <<OutsideDrag, dragStart, dragStartOffset>>
       /\ \A pos \in Pointers, rendered \in RenderOutcomes :
              (~isDragging /\ MouseMove(pos, rendered)) =>
                  UNCHANGED <<currentCropOffset, currentZoomAdjustment>>]_vars

\* A drag has been completed (mousedown, a handled mousemove, mouseup) and a
\* second mousedown has recorded the offset it left, other than zero, as the
\* new drag origin.
C22_Witness ==
    /\ gesture.prev # Null
    /\ gesture.cur # Null
    /\ isDragging
    /\ dragStartOffset = currentCropOffset
    /\ currentCropOffset # Point(Zero, Zero)
    /\ dragStart = gesture.cur.start

(***************************************************************************)
(* The outside of the border (checked under SpecBorder)                    *)
(***************************************************************************)

\* The pixel lies outside the outer circle of radius size / 2.
OutsideCircle(p) == 2 * p.dist > drawArgs.size

DerivedFrom(image, faceData) ==
    \E file \in Files :
        /\ file.decodes
        /\ file.image = image
        /\ faceData \in { file.face, FallbackFace(image) }

\* The current face data and the current colour scheme were derived from the
\* current image.
SessionCoherent ==
    /\ currentImage # Null
    /\ currentFaceData # Null
    /\ currentColorScheme # Null
    /\ DerivedFrom(currentImage, currentFaceData)
    /\ currentColorScheme = extractColorScheme(currentImage, currentFaceData)

\* C23: whenever a token is composed or an adjustment record is written, the
\* current face data and the current colour scheme were derived from the
\* current image, under every interleaving of file uploads: in particular
\* when a second file is uploaded while face detection of the first is still
\* pending, and the two detections resolve in either order.
C23_CoherentUnderInterleaving ==
    [][/\ (currentTokenData' # currentTokenData /\ currentTokenData' # Null)
              => SessionCoherent'
       /\ tokenAdjustments' # tokenAdjustments => SessionCoherent]_vars

(***************************************************************************)
(* The crop data kept for the drag handlers (checked under SpecZoom)       *)
(***************************************************************************)

\* cropData is the region calculateCropArea returns for the image, the face
\* data, the zoom factor and the pan offset.
CropDataFor(image, faceData, zoomAdjustment, cropOffset, cropData) ==
    /\ image # Null
    /\ faceData # Null
    /\ cropData = calculateCropArea(image, faceData,
                                    tokenSize - (tokenBorderWidth * 2),
                                    zoomAdjustment, cropOffset)

\* lastCropData is the region of the current image, face data, zoom factor
\* and stored pan offset: before a step and after it.
LastCropCurrent ==
    CropDataFor(currentImage, currentFaceData, currentZoomAdjustment,
                currentCropOffset, lastCropData)

LastCropCurrentAfter ==
    CropDataFor(currentImage', currentFaceData', currentZoomAdjustment',
                currentCropOffset', lastCropData')

\* An image load completes with a token: processImage or
\* processImageFallback shows the preview.
LoadSucceeds ==
    \E task \in pending, rendered, renderedFallback \in RenderOutcomes :
        /\ DetectFaceSettles(task, rendered, renderedFallback)
        /\ screen' = "preview"

\* A slider, wheel, drag or border event in which compositing succeeds.
EditEvent ==
    \/ \E value \in SliderValues : HandleZoomChange(value, TRUE)
    \/ \E deltaY \in WheelDeltas : Wheel(deltaY, TRUE)
    \/ \E pos \in Pointers : MouseDown(pos) \/ MouseMove(pos, TRUE)
    \/ MouseUp
    \/ MouseLeave
    \/ ToggleBorderThickness(TRUE)
    \/ \E color \in COLOR_SWATCHES : SelectBorderColor(color, TRUE)
    \/ \E textureType \in BORDER_TEXTURES : SelectBorderTexture(textureType, TRUE)
    \/ ResetBorderColor(TRUE)
    \/ ResetBorderTexture(TRUE)

\* C24: after a successful image load and any following sequence of slider,
\* wheel, drag and border events in which compositing succeeds, lastCropData
\* equals the region calculateCropArea returns for the current image, the
\* current face data, the current zoom factor and the current stored pan
\* offset.
C24_LastCropDataCurrent ==
    [][/\ LoadSucceeds => LastCropCurrentAfter
       /\ (LastCropCurrent /\ EditEvent) => LastCropCurrentAfter]_vars

(***************************************************************************)
(* Failure of compositing (checked under SpecRender)                       *)
(***************************************************************************)

\* The token, the preview and the crop data stay as they are.
TokenKept == UNCHANGED <<currentTokenData, preview, lastCropData>>

RegionOf(base, zoomAdjustment) ==
    ClampToImage(argImage, ApplyZoomAndOffset(base, zoomAdjustment, argOffset))

\* The face geometry with another bounding box.
WithBox(faceData, bx, by, bw, bh) ==
    [faceData EXCEPT !.x = Num(bx), !.y = Num(by), !.width = Num(bw),
                     !.height = Num(bh)]

\* Bounding boxes put in the place of the one detected: a small one in the
\* corner of the image and a large one.
OtherBoxes == { <<0, 0, 10, 10>>, <<50, 40, 240, 250>> }

\* C26: calculateCropArea takes the landmark path exactly when both
\* eyeDistance and noseTip are present in the face data, and the bounding-box
\* path in every other case (either one absent); the face bounding box has
\* no influence on the result on the landmark path.
C26_PathChoice ==
    \A c \in Calls :
        IF argFace.eyeDistance # Null /\ argFace.noseTip # Null
        THEN /\ c.result = RegionOf(LandmarkCrop(argFace), c.zoom)
             /\ \A box \in OtherBoxes :
                    calculateCropArea(argImage,
                        WithBox(argFace, box[1], box[2], box[3], box[4]),
                        tokenSize - (tokenBorderWidth * 2), c.zoom, argOffset)
                    = c.result
        ELSE c.result = RegionOf(FaceBoxCrop(argFace), c.zoom)

\* A call has been made with both landmarks present, and its region differs
\* from the region the bounding-box path gives for the same face.
C26_Witness ==
    /\ calls # <<>>
    /\ argFace.eyeDistance # Null
    /\ argFace.noseTip # Null
    /\ calls[1].result # RegionOf(FaceBoxCrop(argFace), calls[1].zoom)

(***************************************************************************)
(* The upload of a file that is not an image (checked under SpecLoad)      *)
(***************************************************************************)

\* What the rejection of a file leaves alone.
SessionAndScreen ==
    <<currentImage, currentFaceData, currentColorScheme, currentTokenData,
      currentZoomAdjustment, currentCropOffset, currentBorderOptions,
      currentFileName, screen>>

\* C28: handleFile called with a file whose type does not start with
\* 'image/' shows the error 'Please upload an image file.' and changes
\* nothing else: the current image, face data, colour scheme, token, zoom,
\* pan offset, border options, stored file name and the visible screen are
\* all unchanged.
C28_NonImageRejected ==
    [][\A file \in Files :
          (~file.isImage /\ HandleFile(file)) =>
              /\ errorMessage' = "Please upload an image file."
              /\ UNCHANGED SessionAndScreen
              /\ UNCHANGED <<lastCropData, preview, zoomSlider, pending,
                             isDragging, dragStart, dragStartOffset,
                             tokenAdjustments>>]_vars

\* A file that is not an image has been rejected while the token of an
\* earlier upload is on the preview screen.
C28_Witness ==
    /\ errorMessage = "Please upload an image file."
    /\ screen = "preview"
    /\ currentTokenData # Null
    /\ currentFileName # NoFileName
    /\ currentZoomAdjustment # One

(***************************************************************************)
(* The app after a reset (checked under SpecReset)                         *)
(***************************************************************************)

\* resetApp sets currentImage to null and only the loading of an image sets
\* it again: from a reset until a new image has been loaded there is no
\* current image.  The state the page opens with is that of a reset.
NoImageLoaded == currentImage = Null

\* A slider, wheel, mousedown or mousemove event.
ZoomOrMouseEvent ==
    \/ \E value \in SliderValues, rendered \in RenderOutcomes :
           HandleZoomChange(value, rendered)
    \/ \E deltaY \in WheelDeltas, rendered \in RenderOutcomes :
           Wheel(deltaY, rendered)
    \/ \E pos \in Pointers : MouseDown(pos)
    \/ \E pos \in Pointers, rendered \in RenderOutcomes : MouseMove(pos, rendered)

\* C29: after resetApp and until a new image has been loaded, slider, wheel,
\* mousedown and mousemove events leave the zoom factor at 1.0, the pan
\* offset at {0,0} and isDragging false, no token is composed, and a
\* download click downloads nothing and does not increment the
\* tokens-created counter.
C29_InertAfterReset ==
    [][/\ (NoImageLoaded /\ ZoomOrMouseEvent) =>
              /\ currentZoomAdjustment' = One
              /\ currentCropOffset' = Point(Zero, Zero)
              /\ ~isDragging'
              /\ UNCHANGED currentTokenData
       /\ (NoImageLoaded /\ DownloadToken) =>
              UNCHANGED <<blobCallbacks, downloaded, tokensCreated>>]_vars

\* The events of the claim leave the session alone while there is no
\* current image.
C29_EventsInert ==
    [][(NoImageLoaded /\ ZoomOrMouseEvent) =>
           /\ currentZoomAdjustment' = One
           /\ currentCropOffset' = Point(Zero, Zero)
           /\ ~isDragging'
           /\ UNCHANGED currentTokenData]_vars

\* A download has been started and has completed while there is no current
\* image.
C29_DownloadAfterReset ==
    /\ NoImageLoaded
    /\ currentTokenData # Null
    /\ downloaded # <<>>
    /\ tokensCreated # <<"0">>

(***************************************************************************)
(* A drag across the loading of a new image (checked under SpecSwap)       *)
(***************************************************************************)

\* No mousedown has started a drag since the processing of the last image
\* completed (or since the page opened).
NoDragStartedSinceLoad == gesture.cur = Null

\* C30: after a new image has been loaded, the stored pan offset stays {0,0}
\* until a new drag is started by a mousedown on that image: a drag that was
\* begun on the previous image (mousedown without mouseup before the load)
\* cannot move the crop of the new image.
C30_OffsetKeptUntilMouseDown ==
    NoDragStartedSinceLoad => currentCropOffset = Point(Zero, Zero)

(***************************************************************************)
(* The backend counter (checked under SpecServer)                          *)
(***************************************************************************)

\* Every request has been answered and no write has failed.
ServerQuiet == writeQueue.tasks = <<>> /\ ~writeQueue.rejected

\* C31: every POST /api/tokens/increment that is answered successfully
\* raises the shared count by exactly one, under every interleaving of
\* requests: after k successful increments from count c the count served
\* and persisted is c + k, and the k responses carry k distinct counts.
C31_EveryIncrementCounts ==
    ServerQuiet =>
        LET k == Len(SuccessfulCounts)
        IN  /\ CountServed = bootCount + k
            /\ tokensFile = bootCount + k
            /\ \A i, j \in 1..k :
                   i # j => SuccessfulCounts[i] # SuccessfulCounts[j]

(***************************************************************************)
(* The adjustment log (checked under SpecZoom)                             *)
(***************************************************************************)

\* C32: adjustment analytics are stored after the zoom changes have
\* settled: every record written to the tokenAdjustments log holds the zoom
\* in force at the moment it is written, so in every stored record
\* zoomValue == 100 * zoomAdjustment, for every sequence of slider and wheel
\* events and timer firings; at most one store timer is pending at any
\* time.
C32_RecordHoldsZoomInForce ==
    \A i \in DOMAIN tokenAdjustments :
        Num(tokenAdjustments[i].zoomValue)
            = RMul(Num(100), tokenAdjustments[i].zoomAdjustment)

(***************************************************************************)
(* The limit of the adjustment log (checked under SpecLog)                 *)
(***************************************************************************)

\* C33: the tokenAdjustments log never holds more than 1000 records:
\* starting from a log of at most 1000 records, each storeAdjustmentData
\* call appends the new record at the end and, when the log would exceed
\* 1000, drops exactly the oldest record, keeping the order of the rest.
C33_LogLimit ==
    /\ [](Len(tokenAdjustments) <= 1000)
    /\ [][tokenAdjustments' # tokenAdjustments =>
             LET new == tokenAdjustments'[Len(tokenAdjustments')]
             IN  /\ new.zoomAdjustment = currentZoomAdjustment
                 /\ tokenAdjustments' =
                        IF Len(tokenAdjustments) < 1000
                        THEN Append(tokenAdjustments, new)
                        ELSE Append(Tail(tokenAdjustments), new)]_vars

\* Two records have been stored on a log that was at the limit: the two
\* oldest records are gone and the log is at the limit.
C33_Witness ==
    /\ Len(tokenAdjustments) = 1000
    /\ tokenAdjustments[1] = StoredRecord(3)
    /\ tokenAdjustments[998] = StoredRecord(1000)
    /\ tokenAdjustments[999].zoomValue # tokenAdjustments[1000].zoomValue

(***************************************************************************)
(* The name of the downloaded file (checked under SpecName)                *)
(***************************************************************************)

\* The name without its last extension.
WithoutLastExtension(name) ==
    LET dots == { i \in 2..Len(name) : name[i] = "." }
    IN  IF dots = {} THEN name
        ELSE SubSeq(name, 1, (CHOOSE i \in dots : \A j \in dots : j <= i) - 1)

\* The name without its last extension, every character outside
\* [A-Za-z0-9_-] replaced by "_", truncated to 50 characters.
DerivedName(name) ==
    LET base == WithoutLastExtension(name)
        safe == [i \in 1..Len(base) |->
                    IF base[i] \in AllowedChars THEN base[i] ELSE "_"]
    IN  IF Len(safe) <= 50 THEN safe ELSE SubSeq(safe, 1, 50)

\* The file name of the download queued last.
QueuedFileName == blobCallbacks[Len(blobCallbacks)].fileName

\* C34: the download file name is always 'token_<name>.png' where <name> is
\* derived from the uploaded file's name by removing the last extension,
\* replacing every character outside [A-Za-z0-9_-] by '_' and truncating to
\* 50 characters; <name> is never empty and contains only characters of
\* [A-Za-z0-9_-], and the plain name 'token.png' is used only when no file
\* name is stored.
C34_DownloadName ==
    [][/\ \A file \in NamedFiles :
             HandleFile(file) =>
                 /\ currentFileName' = DerivedName(file.name)
                 /\ currentFileName' # <<>>
                 /\ \A i \in DOMAIN currentFileName' :
                        currentFileName'[i] \in AllowedChars
       /\ (DownloadToken /\ currentTokenData # Null) =>
             QueuedFileName' =
                 IF currentFileName = NoFileName
                 THEN <<"t", "o", "k", "e", "n", ".", "p", "n", "g">>
                 ELSE <<"t", "o", "k", "e", "n", "_">> \o currentFileName
                          \o <<".", "p", "n", "g">>]_vars

====
